---- MODULE Spec2Model ----
(***************************************************************************)
(* A model of httpstream: the incremental JSON tokeniser and JSONStream    *)
(* path assembler (src/src/jsonstream), the value reassembly utilities     *)
(* and the URI percent-encoding functions (src/httpstream/uri.py).         *)
(*                                                                         *)
(* Text is a sequence of code points (Python's ord of each character), so  *)
(* that ord, chr and int(.., 16) are computed, not assumed.  Python values *)
(* are tagged records [t |-> type, v |-> payload].                         *)
(***************************************************************************)
EXTENDS Integers, Sequences, FiniteSets, TLC

\* ------------------------------------------------------------------ text

\* The printable ASCII characters in code point order, from 32 (space); the
\* grave accent (96) cannot be written in a string and is spelled out.
Ascii ==
    << " ", "!", "\"", "#", "$", "%", "&", "'", "(", ")", "*", "+", ",", "-",
       ".", "/", "0", "1", "2", "3", "4", "5", "6", "7", "8", "9", ":", ";",
       "<", "=", ">", "?", "@", "A", "B", "C", "D", "E", "F", "G", "H", "I",
       "J", "K", "L", "M", "N", "O", "P", "Q", "R", "S", "T", "U", "V", "W",
       "X", "Y", "Z", "[", "\\", "]", "^", "_", "grave", "a", "b", "c", "d", "e",
       "f", "g", "h", "i", "j", "k", "l", "m", "n", "o", "p", "q", "r", "s",
       "t", "u", "v", "w", "x", "y", "z", "{", "|", "}", "~" >>

\* ord(c) of a printable ASCII character.
Ord(c) == 31 + (CHOOSE i \in 1..Len(Ascii) : Ascii[i] = c)

\* The text of a literal written character by character.
T(s) == [i \in 1..Len(s) |-> Ord(s[i])]

Max(a, b) == IF a >= b THEN a ELSE b

\* ---------------------------------------------------------- Python values

None == [t |-> "none", v |-> 0]
BoolV(b) == [t |-> "bool", v |-> b]
IntV(n) == [t |-> "int", v |-> n]
\* A float m * 10^e, see FloatOf for the normal form.
FloatV(m, e) == [t |-> "float", v |-> <<m, e>>]
\* A unicode string, as its code points.
StrV(s) == [t |-> "str", v |-> s]
ListV(s) == [t |-> "list", v |-> s]
DictV(f) == [t |-> "dict", v |-> f]

\* isinstance(x, int): bool is a subclass of int.
IsInt(x) == x.t \in {"int", "bool"}

\* The integer an int or bool counts as in arithmetic and indexing.
IntOf(x) == IF x.t = "bool" THEN (IF x.v THEN 1 ELSE 0) ELSE x.v

\* ------------------------------------------------------------- Tokeniser

\* Characters the code names, as code points.
Quote == Ord("\"")
Backslash == Ord("\\")
Minus == Ord("-")
Dot == Ord(".")
Zero == Ord("0")
LetterU == Ord("u")
LetterN == Ord("n")
LetterT == Ord("t")
LetterF == Ord("f")
Comma == Ord(",")
Colon == Ord(":")
LBracket == Ord("[")
RBracket == Ord("]")
LBrace == Ord("{")
RBrace == Ord("}")
LetterA == Ord("a")
UpperA == Ord("A")
UpperF == Ord("F")
Slash == Ord("/")
LetterB == Ord("b")
LetterR == Ord("r")
Space == Ord(" ")

\* The literals of the JSON grammar.
LitNull == T(<<"n", "u", "l", "l">>)
LitTrue == T(<<"t", "r", "u", "e">>)
LitFalse == T(<<"f", "a", "l", "s", "e">>)


whitespace == { Space, 9, 10, 13, 11, 12 }
DIGITS == { Zero + i : i \in 0..9 }
STRUCTURAL == { Comma, Colon, LBracket, RBracket, LBrace, RBrace }

\* Tokeniser.ESCAPE_SEQUENCES: escape character -> decoded code point.
ESCAPE_SEQUENCES ==
    (Quote :> Quote) @@ (Backslash :> Backslash) @@
    (Slash :> Slash) @@ (LetterB :> 8) @@ (LetterF :> 12) @@
    (LetterN :> 10) @@ (LetterR :> 13) @@ (LetterT :> 9)

\* The outcome of a tokeniser routine: sig is "ok" or the exception raised,
\* pos the read position it leaves, src/value the token, arg the
\* exception's argument.
Out(sig, pos, src, value, arg) ==
    [sig |-> sig, pos |-> pos, src |-> src, value |-> value, arg |-> arg]

Raise(sig, pos, arg) == Out(sig, pos, << >>, None, arg)

\* A tokeniser that keeps asking for data after end().
Starved_unended(writable) == "AwaitingData"

\* What _peek and _read raise when no character is buffered.
Starved(writable) == IF writable THEN "AwaitingData" ELSE "EndOfStream"

\* _peek on a tokeniser that never reports the end of the stream.
peek_unended(data, pos, writable) ==
    IF pos < Len(data)
    THEN Out("ok", pos, << >>, None, data[pos + 1])
    ELSE Raise("AwaitingData", pos, 0)

\* Tokeniser._peek: the next character, the position unchanged.
peek(data, pos, writable) ==
    IF pos < Len(data)
    THEN Out("ok", pos, << >>, None, data[pos + 1])
    ELSE Raise(Starved(writable), pos, 0)

\* Tokeniser._read: the next character, the position advanced.
read_char(data, pos, writable) ==
    IF pos < Len(data)
    THEN Out("ok", pos + 1, << >>, None, data[pos + 1])
    ELSE Raise(Starved(writable), pos, 0)

\* Tokeniser._skip_whitespace: the position of the first character that is
\* not whitespace, or the end of the buffer.
RECURSIVE skip_whitespace(_, _)
skip_whitespace(data, pos) ==
    IF pos < Len(data) /\ data[pos + 1] \in whitespace
    THEN skip_whitespace(data, pos + 1)
    ELSE pos

\* Tokeniser._read_literal, from the i-th character of the literal on;
\* pos0 is where the literal began.
RECURSIVE read_literal_loop(_, _, _, _, _, _)
read_literal_loop(data, pos, writable, literal, i, pos0) ==
    IF i > Len(literal)
    THEN Out("ok", pos, literal, None, 0)
    ELSE LET r == read_char(data, pos, writable)
         IN  CASE r.sig = "AwaitingData" -> Raise("AwaitingData", pos0, 0)
               [] r.sig = "EndOfStream" -> r
               [] r.arg # literal[i] ->
                      Raise("UnexpectedCharacter", r.pos, r.arg)
               [] OTHER ->
                      read_literal_loop(data, r.pos, writable, literal,
                                        i + 1, pos0)

\* _read_literal without its seek(pos) before AwaitingData: the read
\* position stays at the end of the buffer.
read_literal_unrewound(data, pos, writable, literal) ==
    read_literal_loop(data, pos, writable, literal, 1, Len(data))

\* Tokeniser._read_literal: AwaitingData rewinds to where the literal began.
read_literal(data, pos, writable, literal) ==
    read_literal_loop(data, pos, writable, literal, 1, pos)

\* _read_digit on a tokeniser whose _read treats the end of the buffer as
\* the end of the stream.
read_digit_unawaited(data, pos, writable) ==
    LET r == read_char(data, pos, writable)
    IN  CASE r.sig \in {"AwaitingData", "EndOfStream"} ->
                 Raise("EndOfStream", pos, 0)
          [] r.arg \notin DIGITS -> Raise("UnexpectedCharacter", pos, r.arg)
          [] OTHER -> r

\* Tokeniser._read_digit
read_digit(data, pos, writable) ==
    LET r == read_char(data, pos, writable)
    IN  CASE r.sig = "AwaitingData" -> Raise("AwaitingData", pos, 0)
          [] r.sig = "EndOfStream" -> r
          [] r.arg \notin DIGITS -> Raise("UnexpectedCharacter", pos, r.arg)
          [] OTHER -> r

\* int(ch, 16) of one character: its value, or -1 for ValueError.
HexValue(ch) ==
    CASE ch \in DIGITS -> ch - Zero
      [] ch \in LetterA..LetterF -> ch - LetterA + 10
      [] ch \in UpperA..UpperF -> ch - UpperA + 10
      [] OTHER -> -1

\* The four hexadecimal digits of a \u escape: i digits read, n their value.
RECURSIVE read_unicode(_, _, _, _, _, _)
read_unicode(data, pos, writable, src, i, n) ==
    IF i = 4
    THEN Out("ok", pos, src, None, n)
    ELSE LET r == read_char(data, pos, writable)
         IN  CASE r.sig # "ok" -> r
               [] HexValue(r.arg) < 0 -> Raise("ValueError", r.pos, r.arg)
               [] OTHER ->
                      read_unicode(data, r.pos, writable, Append(src, r.arg),
                                   i + 1, 16 * n + HexValue(r.arg))

\* The scanning loop of Tokeniser._read_string, after the opening quote.
RECURSIVE read_string_loop(_, _, _, _, _)
read_string_loop(data, pos, writable, src, value) ==
    LET r == read_char(data, pos, writable)
    IN  IF r.sig # "ok" THEN r
        ELSE IF r.arg = Backslash
        THEN LET e == read_char(data, r.pos, writable)
                 s2 == src \o <<r.arg, e.arg>>
             IN  CASE e.sig # "ok" -> e
                   [] e.arg \in DOMAIN ESCAPE_SEQUENCES ->
                          read_string_loop(data, e.pos, writable, s2,
                              Append(value, ESCAPE_SEQUENCES[e.arg]))
                   [] e.arg = LetterU ->
                          LET u == read_unicode(data, e.pos, writable, s2, 0, 0)
                          IN  IF u.sig # "ok" THEN u
                              ELSE read_string_loop(data, u.pos, writable,
                                       u.src, Append(value, u.arg))
                   [] OTHER -> Raise("UnexpectedCharacter", e.pos, e.arg)
        ELSE IF r.arg = Quote
        THEN Out("ok", r.pos, Append(src, r.arg), StrV(value), 0)
        ELSE read_string_loop(data, r.pos, writable, Append(src, r.arg),
                              Append(value, r.arg))

\* _read_string without its seek(pos) before AwaitingData.
read_string_unrewound(data, pos, writable) ==
    LET q == read_literal_loop(data, pos, writable, <<Quote>>, 1, pos)
    IN  IF q.sig # "ok" THEN q
        ELSE read_string_loop(data, q.pos, writable, q.src, << >>)

\* Tokeniser._read_string: AwaitingData rewinds to where the string began.
read_string(data, pos, writable) ==
    LET q == read_literal(data, pos, writable, <<Quote>>)
        r == read_string_loop(data, q.pos, writable, q.src, << >>)
    IN  CASE q.sig # "ok" -> q
          [] r.sig = "AwaitingData" -> Raise("AwaitingData", pos, 0)
          [] OTHER -> r

\* A digit loop that AwaitingData ends as EndOfStream does: the number
\* stops where the buffer stops.
RECURSIVE read_digits_unawaited(_, _, _, _)
read_digits_unawaited(data, pos, writable, src) ==
    LET d == read_digit(data, pos, writable)
    IN  IF d.sig = "ok"
        THEN read_digits_unawaited(data, d.pos, writable, Append(src, d.arg))
        ELSE Out("ok", d.pos, src, None, 0)

\* The "while True: src.append(self._read_digit())" loops of _read_number:
\* UnexpectedCharacter and EndOfStream end the loop, AwaitingData escapes.
RECURSIVE read_digits(_, _, _, _)
read_digits(data, pos, writable, src) ==
    LET d == read_digit(data, pos, writable)
    IN  CASE d.sig = "ok" ->
                 read_digits(data, d.pos, writable, Append(src, d.arg))
          [] d.sig = "AwaitingData" -> d
          [] OTHER -> Out("ok", d.pos, src, None, 0)

\* The value of a run of decimal digits.
RECURSIVE DigitsValue(_)
DigitsValue(ds) ==
    IF ds = << >> THEN 0
    ELSE 10 * DigitsValue(SubSeq(ds, 1, Len(ds) - 1)) + (ds[Len(ds)] - Zero)

\* int(src) of an optional '-' and digits.
IntValue(src) ==
    IF src[1] = Minus
    THEN IntV(0 - DigitsValue(Tail(src)))
    ELSE IntV(DigitsValue(src))

\* The normal form of the float m * 10^e: m is not a multiple of 10, and
\* zero is 0 * 10^0 (Python's -0.0 equals 0.0).
RECURSIVE FloatOf(_, _)
FloatOf(m, e) ==
    IF m = 0 THEN FloatV(0, 0)
    ELSE IF m % 10 = 0 THEN FloatOf(m \div 10, e + 1)
    ELSE FloatV(m, e)

\* float(src) of an optional '-', digits, '.' and digits.
FloatValue(src) ==
    LET neg == src[1] = Minus
        body == IF neg THEN Tail(src) ELSE src
        dot == CHOOSE i \in 1..Len(body) : body[i] = Dot
        digits == SubSeq(body, 1, dot - 1) \o SubSeq(body, dot + 1, Len(body))
        m == DigitsValue(digits)
    IN  FloatOf(IF neg THEN 0 - m ELSE m, 0 - (Len(body) - dot))

\* Tokeniser._read_number
read_number(data, pos, writable) ==
    LET p == peek(data, pos, writable)
        neg == p.sig = "ok" /\ p.arg = Minus
        src0 == IF neg THEN <<p.arg>> ELSE << >>
        pos1 == IF neg THEN pos + 1 ELSE pos
        \* integer part
        d == read_digit(data, pos1, writable)
        more == IF d.arg # Zero
                THEN read_digits(data, d.pos, writable, Append(src0, d.arg))
                ELSE Out("ok", d.pos, Append(src0, d.arg), None, 0)
        nxt == peek(data, more.pos, writable)
        \* when _peek raises EndOfStream, ch keeps the first digit
        ch == IF nxt.sig = "ok" THEN nxt.arg ELSE d.arg
        \* fractional part
        frac == read_digits(data, more.pos + 1, writable,
                            Append(more.src, ch))
    IN  CASE p.sig = "AwaitingData" -> Raise("AwaitingData", pos, 0)
          [] p.sig # "ok" -> p
          [] d.sig = "AwaitingData" -> Raise("AwaitingData", pos, 0)
          [] d.sig # "ok" -> d
          [] more.sig = "AwaitingData" -> Raise("AwaitingData", pos, 0)
          [] nxt.sig = "AwaitingData" -> Raise("AwaitingData", pos, 0)
          [] ch = Dot ->
                 IF frac.sig = "AwaitingData"
                 THEN Raise("AwaitingData", pos, 0)
                 ELSE Out("ok", frac.pos, frac.src, FloatValue(frac.src), 0)
          [] OTHER -> Out("ok", more.pos, more.src, IntValue(more.src), 0)

\* "return <routine>, value": the value goes with a token that was read.
WithValue(r, value) == IF r.sig = "ok" THEN [r EXCEPT !.value = value] ELSE r

\* Tokeniser.read: one token from the read position, or the exception.
read(data, pos, writable) ==
    LET start == skip_whitespace(data, pos)
        p == peek(data, start, writable)
        ch == p.arg
    IN  CASE p.sig # "ok" -> p
          [] ch \in STRUCTURAL -> Out("ok", start + 1, <<ch>>, None, 0)
          [] ch = LetterN ->
                 read_literal(data, start, writable, LitNull)
          [] ch = LetterT ->
                 WithValue(read_literal(data, start, writable,
                                        LitTrue), BoolV(TRUE))
          [] ch = LetterF ->
                 WithValue(read_literal(data, start, writable,
                                        LitFalse),
                           BoolV(FALSE))
          [] ch = Quote -> read_string(data, start, writable)
          [] ch \in DIGITS \cup {Minus} -> read_number(data, start, writable)
          [] OTHER -> Raise("UnexpectedCharacter", start, ch)

\* write without _assert_writable.
Tokeniser_write_unchecked(data, write_pos, read_pos, writable, chunk) ==
    [sig |-> "ok",
     data |-> SubSeq(data, 1, write_pos) \o chunk \o
              SubSeq(data, write_pos + Len(chunk) + 1, Len(data)),
     write_pos |-> write_pos + Len(chunk),
     read_pos |-> read_pos]

\* Tokeniser.write with _assert_writable: the chunk goes in at the write
\* position and the read position is put back; IOError when ended.
Tokeniser_write(data, write_pos, read_pos, writable, chunk) ==
    IF ~writable
    THEN [sig |-> "IOError", data |-> data, write_pos |-> write_pos,
          read_pos |-> read_pos]
    ELSE [sig |-> "ok",
          data |-> SubSeq(data, 1, write_pos) \o chunk \o
                   SubSeq(data, write_pos + Len(chunk) + 1, Len(data)),
          write_pos |-> write_pos + Len(chunk),
          read_pos |-> read_pos]

\* ------------------------------------------------------------ JSONStream

\* Token constants used for expectation management.
VALUE == 1
OPENING_BRACKET == 2
CLOSING_BRACKET == 4
OPENING_BRACE == 8
CLOSING_BRACE == 16
COMMA == 32
COLON == 64

\* self._expectation & token, for a one-bit token.
Expecting(expectation, token) == (expectation \div token) % 2 = 1

\* The outcome of a JSONStream handler: the new path and expectation, the
\* events it yields, and raised = TRUE for UnexpectedCharacter(src).
Handled(path, expectation, out) ==
    [path |-> path, expectation |-> expectation, out |-> out,
     raised |-> FALSE]

Unexpected(path, expectation) ==
    [path |-> path, expectation |-> expectation, out |-> << >>,
     raised |-> TRUE]

Event(path, value) == [path |-> path, value |-> value]

Top(path) == path[Len(path)]
SetTop(path, x) == [path EXCEPT ![Len(path)] = x]
Pop(path) == SubSeq(path, 1, Len(path) - 1)

\* self.path[-1] += 1
Increment(path) == SetTop(path, IntV(IntOf(Top(path)) + 1))

in_array(path) == path # << >> /\ IsInt(Top(path))
in_object(path) == path # << >> /\ ~IsInt(Top(path))
\* _has_key is truthy only for a top segment that is neither None nor int.
has_key(path) == path # << >> /\ Top(path) # None /\ ~IsInt(Top(path))

\* The mutation of _next_value: after a simple value nothing more is
\* expected.
next_value_single(path, expectation, value) ==
    CASE ~Expecting(expectation, VALUE) -> Unexpected(path, expectation)
      [] in_array(path) ->
             Handled(Increment(path), COMMA + CLOSING_BRACKET,
                     <<Event(path, value)>>)
      [] in_object(path) /\ has_key(path) ->
             Handled(SetTop(path, None), COMMA + CLOSING_BRACE,
                     <<Event(path, value)>>)
      [] in_object(path) ->
             Handled(SetTop(path, value), COLON, << >>)
      [] OTHER -> Handled(path, 0, <<Event(path, value)>>)

\* JSONStream._next_value
next_value(path, expectation, value) ==
    CASE ~Expecting(expectation, VALUE) -> Unexpected(path, expectation)
      [] in_array(path) ->
             Handled(Increment(path), COMMA + CLOSING_BRACKET,
                     <<Event(path, value)>>)
      [] in_object(path) /\ has_key(path) ->
             Handled(SetTop(path, None), COMMA + CLOSING_BRACE,
                     <<Event(path, value)>>)
      [] in_object(path) ->
             Handled(SetTop(path, value), COLON, << >>)
      [] OTHER -> Handled(path, expectation, <<Event(path, value)>>)

\* _handle_comma without _assert_expecting.
handle_comma_unchecked(path, expectation) ==
    Handled(path, VALUE + OPENING_BRACKET + OPENING_BRACE, << >>)

\* JSONStream._handle_comma
handle_comma(path, expectation) ==
    IF ~Expecting(expectation, COMMA) THEN Unexpected(path, expectation)
    ELSE Handled(path, VALUE + OPENING_BRACKET + OPENING_BRACE, << >>)

\* JSONStream._handle_colon
handle_colon(path, expectation) ==
    IF ~Expecting(expectation, COLON) THEN Unexpected(path, expectation)
    ELSE Handled(path, VALUE + OPENING_BRACKET + OPENING_BRACE, << >>)

\* JSONStream._open_array
open_array(path, expectation) ==
    IF ~Expecting(expectation, OPENING_BRACKET)
    THEN Unexpected(path, expectation)
    ELSE Handled(Append(path, IntV(0)),
                 VALUE + OPENING_BRACKET + CLOSING_BRACKET + OPENING_BRACE,
                 << >>)

\* The path and expectation after a container has been popped, shared by
\* _close_array and _close_object.
\* The mutation of _close_array and _close_object: the index of the
\* enclosing array is left where it was.
Closed_unadvanced(path) ==
    CASE in_array(path) ->
             Handled(path, COMMA + CLOSING_BRACKET, << >>)
      [] in_object(path) ->
             Handled(SetTop(path, None), COMMA + CLOSING_BRACE, << >>)
      [] OTHER ->
             Handled(path, VALUE + OPENING_BRACKET + OPENING_BRACE, << >>)

Closed(path) ==
    CASE in_array(path) ->
             Handled(Increment(path), COMMA + CLOSING_BRACKET, << >>)
      [] in_object(path) ->
             Handled(SetTop(path, None), COMMA + CLOSING_BRACE, << >>)
      [] OTHER ->
             Handled(path, VALUE + OPENING_BRACKET + OPENING_BRACE, << >>)

\* The mutation of _close_array: the path segment is not popped.
close_array_unpopped(path, expectation) ==
    IF ~Expecting(expectation, CLOSING_BRACKET)
    THEN Unexpected(path, expectation)
    ELSE Closed(path)

\* JSONStream._close_array
close_array(path, expectation) ==
    IF ~Expecting(expectation, CLOSING_BRACKET)
    THEN Unexpected(path, expectation)
    ELSE Closed(Pop(path))

\* JSONStream._open_object
open_object(path, expectation) ==
    IF ~Expecting(expectation, OPENING_BRACE)
    THEN Unexpected(path, expectation)
    ELSE Handled(Append(path, None), VALUE + CLOSING_BRACE, << >>)

\* _close_object without _assert_expecting.
close_object_unchecked(path, expectation) ==
    Closed(Pop(path))

\* JSONStream._close_object
close_object(path, expectation) ==
    IF ~Expecting(expectation, CLOSING_BRACE)
    THEN Unexpected(path, expectation)
    ELSE Closed(Pop(path))

\* The dispatch on src in JSONStream.__iter__.
Dispatch(path, expectation, src, value) ==
    CASE src = <<Comma>> -> handle_comma(path, expectation)
      [] src = <<Colon>> -> handle_colon(path, expectation)
      [] src = <<LBracket>> -> open_array(path, expectation)
      [] src = <<RBracket>> -> close_array(path, expectation)
      [] src = <<LBrace>> -> open_object(path, expectation)
      [] src = <<RBrace>> -> close_object(path, expectation)
      [] OTHER -> next_value(path, expectation, value)

\* ----------------------------------------------------- value reassembly

IndexError == [t |-> "raise", v |-> "IndexError"]

\* n times None
Nones(n) == [i \in 1..n |-> None]

\* merged(obj, key, value) of jsonstream/util.py (_merged of
\* httpstream/json/util.py is the same function).
RECURSIVE merged(_, _, _)
merged(obj, key, value) ==
    IF key = << >> THEN value
    ELSE LET k == key[1] IN
         IF IsInt(k)
         THEN LET base == IF obj.t = "list" THEN obj.v ELSE << >>
                  padded == base \o Nones(Max(0, IntOf(k) + 1 - Len(base)))
                  \* obj[k]: a negative k counts from the end
                  i == IF IntOf(k) >= 0 THEN IntOf(k) + 1
                       ELSE Len(padded) + IntOf(k) + 1
                  sub == merged(padded[i], Tail(key), value)
              IN  CASE i < 1 -> IndexError
                    [] sub = IndexError -> IndexError
                    [] OTHER -> ListV([padded EXCEPT ![i] = sub])
         ELSE LET base == IF obj.t = "dict" THEN obj.v ELSE << >>
                  old == IF k \in DOMAIN base THEN base[k] ELSE None
                  sub == merged(old, Tail(key), value)
              IN  IF sub = IndexError THEN IndexError
                  ELSE DictV([x \in DOMAIN base \cup {k} |->
                                 IF x = k THEN sub ELSE base[x]])

\* assembled(iterable): the fold of merged over the events, from None.
RECURSIVE assembled_from(_, _)
assembled_from(obj, events) ==
    IF events = << >> \/ obj = IndexError THEN obj
    ELSE assembled_from(merged(obj, events[1].path, events[1].value),
                        Tail(events))

assembled(events) == assembled_from(None, events)

\* ------------------------------------------------ percent encoding (uri)

Percent == Ord("%")
Plus == Ord("+")
Underscore == Ord("_")
LetterX == Ord("x")
UpperX == Ord("X")

\* The unreserved characters of RFC 3986.
unreserved ==
    {Minus, Dot, Underscore, Ord("~")} \cup DIGITS
        \cup (UpperA..Ord("Z")) \cup (LetterA..Ord("z"))

\* The digit characters of hex(n)[2:].upper()
HexDigit(d) == IF d < 10 THEN Zero + d ELSE UpperA + (d - 10)

RECURSIVE HexString(_)
HexString(n) ==
    IF n < 16 THEN <<HexDigit(n)>>
    ELSE Append(HexString(n \div 16), HexDigit(n % 16))

\* str.zfill(2)
zfill2(s) == IF Len(s) < 2 THEN <<Zero>> \o s ELSE s

\* "".join(chars)
RECURSIVE Concat(_)
Concat(parts) ==
    IF parts = << >> THEN << >> ELSE parts[1] \o Concat(Tail(parts))

\* percent_encode(data, safe) of a string: '%' and every character that is
\* neither unreserved nor in safe becomes '%' and the hexadecimal digits of
\* its code point, at least two of them.
percent_encode(data, safe) ==
    LET keep == unreserved \cup safe
        char(c) == IF c = Percent \/ c \notin keep
                   THEN <<Percent>> \o zfill2(HexString(c))
                   ELSE <<c>>
    IN  Concat([i \in 1..Len(data) |-> char(data[i])])

\* The characters int() skips as whitespace around a number, among the
\* code points up to 256.
py_space == (9..13) \cup {32, 133, 160}

RECURSIVE lstrip(_)
lstrip(s) ==
    IF s # << >> /\ s[1] \in py_space THEN lstrip(Tail(s)) ELSE s

RECURSIVE rstrip(_)
rstrip(s) ==
    IF s # << >> /\ s[Len(s)] \in py_space
    THEN rstrip(SubSeq(s, 1, Len(s) - 1)) ELSE s

\* The value of hexadecimal digits with underscores between them.
RECURSIVE HexNumber(_, _)
HexNumber(s, n) ==
    IF s = << >> THEN n
    ELSE IF s[1] = Underscore THEN HexNumber(Tail(s), n)
    ELSE HexNumber(Tail(s), 16 * n + HexValue(s[1]))

\* The digits of int(text, 16), after the sign and the prefix: hexadecimal
\* digits with single underscores between them; ok = FALSE for ValueError.
int16_digits(body, negative) ==
    IF /\ body # << >>
       /\ HexValue(body[1]) >= 0
       /\ HexValue(body[Len(body)]) >= 0
       /\ \A i \in 1..Len(body) :
              HexValue(body[i]) >= 0 \/ body[i] = Underscore
       /\ \A i \in 1..(Len(body) - 1) :
              ~(body[i] = Underscore /\ body[i + 1] = Underscore)
    THEN [ok |-> TRUE,
          n |-> IF negative THEN 0 - HexNumber(body, 0)
                ELSE HexNumber(body, 0)]
    ELSE [ok |-> FALSE, n |-> 0]

\* int(text, 16) after the sign: an optional 0x prefix, which an underscore
\* may follow.
int16_unsigned(u, negative) ==
    IF Len(u) >= 2 /\ u[1] = Zero /\ u[2] \in {LetterX, UpperX}
    THEN IF Len(u) >= 3 /\ u[3] = Underscore
         THEN int16_digits(SubSeq(u, 4, Len(u)), negative)
         ELSE int16_digits(SubSeq(u, 3, Len(u)), negative)
    ELSE int16_digits(u, negative)

\* int(text, 16) of a text without whitespace around it: an optional sign.
int16_signed(t) ==
    IF t # << >> /\ t[1] \in {Plus, Minus}
    THEN int16_unsigned(Tail(t), t[1] = Minus)
    ELSE int16_unsigned(t, FALSE)

\* int(text, 16)
int16(text) == int16_signed(rstrip(lstrip(text)))

\* The result of percent_decode: the text, or the exception it raised.
Decoded(text) == [sig |-> "ok", text |-> text]
DecodeError == [sig |-> "ValueError", text |-> << >>]

\* A match of %[0-9A-Fa-f]{2} at position i.
IsEscape(data, i) ==
    /\ i + 2 <= Len(data)
    /\ data[i] = Percent
    /\ HexValue(data[i + 1]) >= 0
    /\ HexValue(data[i + 2]) >= 0

\* re.split("(%[0-9A-Fa-f]{2})", data) from position i on, the text since
\* position start belonging to no match: the texts between the matches
\* and the matches, in order.
RECURSIVE split_escapes(_, _, _)
split_escapes(data, i, start) ==
    IF i > Len(data) THEN << SubSeq(data, start, Len(data)) >>
    ELSE IF IsEscape(data, i)
    THEN << SubSeq(data, start, i - 1), SubSeq(data, i, i + 2) >>
             \o split_escapes(data, i + 3, i + 3)
    ELSE split_escapes(data, i + 1, start)

\* chr(n) of the outcome of int(): ValueError outside the code points.
chr(x) ==
    IF x.ok /\ x.n >= 0 /\ x.n <= 1114111
    THEN Decoded(<<x.n>>) ELSE DecodeError

\* chr(int(bit[1:], 16)) for a bit that starts with '%', the bit otherwise.
decode_bit(bit) ==
    IF bit # << >> /\ bit[1] = Percent
    THEN chr(int16(Tail(bit)))
    ELSE Decoded(bit)

\* The loop of percent_decode over the bits.
decode_bits(bits) == [i \in 1..Len(bits) |-> decode_bit(bits[i])]

\* "".join(bits), unless a bit raised.
join_bits(out) ==
    IF \E i \in 1..Len(out) : out[i].sig # "ok"
    THEN DecodeError
    ELSE Decoded(Concat([i \in 1..Len(out) |-> out[i].text]))

\* percent_decode(data) of a string
percent_decode(data) == join_bits(decode_bits(split_escapes(data, 1, 1)))

\* ------------------------------------------------------------- Path

\* text.startswith(prefix)
startswith(text, prefix) ==
    /\ Len(text) >= Len(prefix)
    /\ SubSeq(text, 1, Len(prefix)) = prefix

\* text[n:]
From(text, n) == SubSeq(text, n + 1, Len(text))

\* The positions of the character c in the text.
Find(text, c) == { i \in 1..Len(text) : text[i] = c }

First(S) == CHOOSE i \in S : \A j \in S : i <= j
Last(S) == CHOOSE i \in S : \A j \in S : i >= j

\* text.partition(c): <<head, separator, tail>> at the first c.
partition(text, c) ==
    IF Find(text, c) = {} THEN << text, << >>, << >> >>
    ELSE << SubSeq(text, 1, First(Find(text, c)) - 1), <<c>>,
            From(text, First(Find(text, c))) >>

\* text.rpartition(c): <<head, separator, tail>> at the last c.
rpartition(text, c) ==
    IF Find(text, c) = {} THEN << << >>, << >>, text >>
    ELSE << SubSeq(text, 1, Last(Find(text, c)) - 1), <<c>>,
            From(text, Last(Find(text, c))) >>

\* An exception of the URI classes, as the caller sees it.
Raised(name) == [t |-> name]

\* Path(string) for a string: the path is kept decoded.
Path(string) ==
    IF percent_decode(string).sig = "ok"
    THEN [t |-> "Path", path |-> percent_decode(string).text]
    ELSE Raised("ValueError")

\* Path.string
Path_string(p) == percent_encode(p.path, {Slash})

Dots1 == <<Dot>>
Dots2 == <<Dot, Dot>>

\* The loop of Path.remove_dot_segments on the input and output buffers.
RECURSIVE remove_dots(_, _)
remove_dots(inp, out) ==
    IF inp = << >> THEN out
    ELSE IF startswith(inp, Dots2 \o <<Slash>>)
    THEN remove_dots(From(inp, 3), out)
    ELSE IF startswith(inp, Dots1 \o <<Slash>>)
    THEN remove_dots(From(inp, 2), out)
    ELSE IF startswith(inp, <<Slash>> \o Dots1 \o <<Slash>>)
    THEN remove_dots(From(inp, 2), out)
    ELSE IF inp = <<Slash>> \o Dots1
    THEN remove_dots(<<Slash>>, out)
    ELSE IF startswith(inp, <<Slash>> \o Dots2 \o <<Slash>>)
    THEN remove_dots(From(inp, 3), rpartition(out, Slash)[1])
    ELSE IF inp = <<Slash>> \o Dots2
    THEN remove_dots(<<Slash>>, rpartition(out, Slash)[1])
    ELSE IF inp \in {Dots1, Dots2}
    THEN remove_dots(<< >>, out)
    ELSE IF startswith(inp, <<Slash>>)
    THEN remove_dots(partition(From(inp, 1), Slash)[2]
                         \o partition(From(inp, 1), Slash)[3],
                     out \o <<Slash>> \o partition(From(inp, 1), Slash)[1])
    ELSE remove_dots(partition(inp, Slash)[2] \o partition(inp, Slash)[3],
                     out \o partition(inp, Slash)[1])

\* Path.remove_dot_segments
Path_remove_dot_segments(p) == Path(remove_dots(Path_string(p), << >>))

\* ------------------------------------------------------------ state

VARIABLES
    \* the Tokeniser: its StringIO buffer, tell(), _write_pos, _writable
    data, read_pos, write_pos, writable,
    \* the JSONStream: self.path, self._expectation, and where __iter__ is
    path, expectation, pc,
    \* the caller's input: the text not yet handed over
    source,
    \* history: the tokens read() has returned, the events yielded, the
    \* outcome of the latest call, whether every chunk written so far was
    \* one character, the number of '[' and '{' accepted, the number of ']'
    \* and '}' accepted, and the latest AwaitingData of read()
    tokens, events, last, bychar, opens, closes, awaiting,
    \* a caller of percent_encode and percent_decode: the string it holds,
    \* the safe characters it passes, the results, and how far it has got
    raw, safe, encoded, decoded, step,
    \* a caller of the URI classes (Path, Authority, Query, URI,
    \* URITemplate): the object its latest call returned or the exception
    \* that call raised, and the arguments of that call
    part, args,
    \* a Response and the httplib response it wraps, the generator of
    \* Response.iter_lines, a Request being submitted, and what the servers
    \* of the network answer
    response, lines, request, network,
    \* a caller of merged: the events it has still to merge, the objects in
    \* memory, the accumulator it holds, and the accumulators it held before
    \* with the value each had when it was returned
    iterable, heap, accumulator, kept,
    \* a consumer of grouped: the itertools.groupby object, the level, the
    \* groups the consumer has been given with the items delivered in each,
    \* the events pulled and thrown away, and whether the consumer has so far
    \* finished each group before asking for the next
    groupby, level, groups, dropped, orderly,
    \* a ConnectionPuddle: its lists of connections in use and at rest, and
    \* the number of connections it has made (a connection is its number)
    active, passive, connections

tokeniser == <<data, read_pos, write_pos, writable>>
stream == <<path, expectation, pc, events, opens, closes>>
reader == <<tokens, awaiting>>
percent == <<raw, safe, encoded, decoded, step>>
uricall == <<part, args>>
httpcall == <<response, lines, request, network>>
grouping == <<groupby, level, groups, dropped, orderly>>
utilcall == <<iterable, heap, accumulator, kept, grouping>>
pool == <<active, passive, connections>>
vars ==
    <<tokeniser, stream, reader, source, last, bychar, percent, uricall,
      httpcall, utilcall, pool>>

Call(op, sig, arg) == [op |-> op, sig |-> sig, arg |-> arg, src |-> << >>]

\* The outcome of handing a token to its handler in __iter__: the
\* exception, if any, carries the token's source.
Handling(sig, src) == [op |-> "handle", sig |-> sig, arg |-> 0, src |-> src]

\* ----------------------------------------------------------- the inputs

\* The length of the exhaustively enumerated short texts.
MaxLen == 3

\* The characters of the short texts given to a Tokeniser.
TokAlphabet ==
    { Ord("\""), Ord("1"), Ord("0"), Ord("-"), Ord("."), Ord(" ") }

\* The characters of the short texts given to a JSONStream.
Alphabet ==
    { Ord("["), Ord("]"), Ord("{"), Ord("}"), Ord(","), Ord(":"), Ord("\""),
      Ord("1"), Ord(" ") }

TextsOver(chars) == UNION { [1..n -> chars] : n \in 0..MaxLen }

\* Token texts of test/tokeniser_test.py and their broken variants.
TokCorpus ==
    { T(<<"n", "u", "l", "l">>),
      T(<<"t", "r", "u", "e">>),
      T(<<"f", "a", "l", "s", "e">>),
      T(<<"f", "a", "l">>),
      T(<<"x", "y", "z">>),
      T(<<"f", "o", "o">>),
      T(<<"t", "x", "1">>),
      T(<<"\"", "f", "o", "o", "b", "a", "r", "\"">>),
      T(<<"\"", "f", "o", "o", "\\">>),
      T(<<"\"", "\\", "\"", "\"">>),
      T(<<"\"", "\\", "\\", "\"">>),
      T(<<"\"", "\\", "1", "\"">>),
      T(<<"\"", "f", "\\", "t", "b", "\"">>),
      T(<<"\"", "f", "\\", "x", "b", "\"">>),
      T(<<"\"", "\\", "u", "0", "0", "a", "3", "1", "\"">>),
      T(<<"\"", "\\", "u", "0", "0", "z", "3", "\"">>),
      T(<<"-", "4", "2">>),
      T(<<"-", "3", ".", "1", "4">>),
      T(<<"4", "2", ",", " ", "7", "6">>),
      T(<<"3", ".", "1", "4", "e", "1", "0">>),
      T(<<"[", "\"", "a", "\"", ",", " ", "t", "r", "u", "e", "]">>) }

\* Documents of test/jsonstream_test.py and their broken variants.
Corpus ==
    { T(<<"f", "a", "l", "s", "e">>),
      T(<<"\"", "\\", "u", "0", "0", "a", "3", "1", "\"">>),
      T(<<"\"", "\\", "u", "0", "0", "z", "3", "\"">>),
      T(<<"-", "3", ".", "1", "4">>),
      T(<<"4", "2", " ", "7", "6">>),
      T(<<"[", "\"", "f", "o", "o", "\"", ",", " ", "\"", "b", "a", "r",
          "\"", "]">>),
      T(<<"[", "\"", "f", "o", "o", "\"", ",", " ", "[", "\"", "b", "a", "r",
          "\"", ",", " ", "\"", "b", "a", "z", "\"", "]", ",", " ", "1", "9",
          "]">>),
      T(<<"{", "\"", "f", "o", "o", "\"", ":", " ", "\"", "m", "i", "l", "k",
          "\"", ",", " ", "\"", "b", "a", "r", "\"", ":", " ", "\"", "j", "u",
          "i", "c", "e", "\"", "}">>),
      T(<<"[", "[", "]", ",", "[", "]", "]">>),
      T(<<"{", "\"", "f", "o", "o", "\"", ":", "[", "]", ",", "\"", "b", "a",
          "r", "\"", ":", "{", "}", "}">>),
      T(<<"[", "{", "}", ",", "{", "}", "]">>),
      T(<<"[", "t", "r", "u", "e", ",", "f", "a", "l", "s", "e", ",", "n",
          "u", "l", "l", "]">>),
      T(<<"{", "1", ":", "2", ",", "3", ":", "4", "}">>),
      T(<<"{", "t", "r", "u", "e", ":", "[", "1", "]", "}">>),
      T(<<"{", "\"", "a", "\"", ":", "1", ",", "[">>),
      T(<<"[", "1", " ", "2", "]">>),
      T(<<"[", "1", ",", "]">>) }

\* str(n) of a natural number
RECURSIVE Decimal(_)
Decimal(n) ==
    IF n < 10 THEN <<Zero + n>>
    ELSE Append(Decimal(n \div 10), Zero + (n % 10))

\* sep.join(parts)
RECURSIVE Joined(_, _)
Joined(parts, sep) ==
    IF parts = << >> THEN << >>
    ELSE IF Len(parts) = 1 THEN parts[1]
    ELSE parts[1] \o sep \o Joined(Tail(parts), sep)

\* json.dumps(d), the text of a document, for strings that need no escape.
RECURSIVE dumps(_)
RECURSIVE dumps_items(_, _)
dumps_items(f, keys) ==
    IF keys = {} THEN << >>
    ELSE LET k == CHOOSE x \in keys : TRUE
             item == dumps(k) \o <<Colon, Space>> \o dumps(f[k])
         IN  IF keys = {k} THEN item
             ELSE item \o <<Comma, Space>> \o dumps_items(f, keys \ {k})

dumps(d) ==
    CASE d.t = "none" -> LitNull
      [] d.t = "bool" -> IF d.v THEN LitTrue ELSE LitFalse
      [] d.t = "int" -> IF d.v < 0 THEN <<Minus>> \o Decimal(0 - d.v)
                        ELSE Decimal(d.v)
      [] d.t = "str" -> <<Quote>> \o d.v \o <<Quote>>
      [] d.t = "list" ->
             <<LBracket>>
                 \o Joined([i \in 1..Len(d.v) |-> dumps(d.v[i])],
                           <<Comma, Space>>)
                 \o <<RBracket>>
      [] d.t = "dict" ->
             <<LBrace>> \o dumps_items(d.v, DOMAIN d.v) \o <<RBrace>>

\* Documents in the shape of the data of test_can_assemble_data: scalars,
\* arrays and objects, nested, with and without members.
JsonValues ==
    LET a == StrV(T(<<"a">>))
        b == StrV(T(<<"b">>))
    IN  { None, BoolV(TRUE), IntV(34), IntV(-1), a,
          ListV(<< >>), DictV(<< >>),
          ListV(<<IntV(1)>>), ListV(<<a, b>>),
          ListV(<<ListV(<<IntV(1)>>), IntV(2)>>),
          ListV(<<IntV(1), ListV(<< >>)>>),
          ListV(<<DictV(<< >>)>>),
          DictV(a :> IntV(1)),
          DictV((a :> IntV(1)) @@ (b :> ListV(<<a, b>>))),
          DictV(a :> DictV(b :> None)),
          DictV((a :> IntV(1)) @@ (b :> ListV(<< >>))),
          DictV(a :> DictV(<< >>)) }

JsonTexts == { dumps(d) : d \in JsonValues }

\* Numbers with an exponent and the float each denotes, from
\* test_exponential_float_values.
ExponentTexts ==
    { [text |-> T(<<"3", ".", "1", "4", "e", "1", "0">>),
       value |-> FloatOf(314, 8)],
      [text |-> T(<<"-", "3", ".", "1", "4", "e", "+", "1", "0">>),
       value |-> FloatOf(-314, 8)],
      [text |-> T(<<"-", "3", "E", "-", "1", "0">>),
       value |-> FloatOf(-3, -10)] }

TokTexts == TextsOver(TokAlphabet) \cup TokCorpus
Texts ==
    TextsOver(Alphabet) \cup Corpus \cup JsonTexts
        \cup { x.text : x \in ExponentTexts }

\* ---------------------------------------------- a Tokeniser and its caller

InitObjects ==
    /\ data = << >> /\ read_pos = 0 /\ write_pos = 0 /\ writable = TRUE
    /\ path = << >>
    /\ expectation = VALUE + OPENING_BRACKET + OPENING_BRACE
    /\ pc = "fetch"
    /\ tokens = << >> /\ events = << >>
    /\ last = Call("init", "ok", 0)
    /\ bychar = TRUE /\ opens = 0 /\ closes = 0
    /\ awaiting = [pos |-> -1, len |-> -1]

\* No percent-encoding call has been made.
NotCalled == [sig |-> "none", text |-> << >>]

InitPercent ==
    /\ encoded = << >>
    /\ decoded = NotCalled
    /\ step = "start"

\* No URI object has been made.
NoPart == [t |-> "none"]

\* No call of the HTTP classes has been made.
NoHttp ==
    /\ response = NoPart /\ lines = NoPart
    /\ request = NoPart /\ network = NoPart

\* Nothing has been merged.
NoMerge ==
    /\ heap = << >> /\ accumulator = None /\ kept = << >>

\* grouped has not been called.
NoGrouping ==
    /\ groupby = NoPart /\ level = 0 /\ groups = << >>
    /\ dropped = << >> /\ orderly = TRUE

\* No ConnectionPuddle has been made.
NoPool ==
    /\ active = << >> /\ passive = << >> /\ connections = 0

InitParts ==
    /\ part = NoPart /\ args = << >>
    /\ NoHttp
    /\ iterable = << >> /\ NoMerge /\ NoGrouping
    /\ NoPool

Init ==
    /\ InitObjects /\ source \in Texts
    /\ InitPercent /\ raw = << >> /\ safe = {}
    /\ InitParts

InitTok ==
    /\ InitObjects /\ source \in TokTexts
    /\ InitPercent /\ raw = << >> /\ safe = {}
    /\ InitParts

\* The caller writes the next chunk: any non-empty prefix of what is left.
TokWrite ==
    \E k \in 1..Len(source) :
        LET w == Tokeniser_write(data, write_pos, read_pos, writable,
                                 SubSeq(source, 1, k))
        IN  /\ data' = w.data
            /\ write_pos' = w.write_pos
            /\ read_pos' = w.read_pos
            /\ last' = Call("write", w.sig, 0)
            /\ source' = IF w.sig = "ok"
                         THEN SubSeq(source, k + 1, Len(source)) ELSE source
            /\ bychar' = IF w.sig = "ok" THEN bychar /\ k = 1 ELSE bychar
            /\ UNCHANGED <<percent, uricall, httpcall, utilcall, pool>>
            /\ UNCHANGED <<writable, stream, reader>>

\* Tokeniser.end
TokEnd ==
    /\ writable' = FALSE
    /\ last' = Call("end", "ok", 0)
    /\ UNCHANGED <<percent, uricall, httpcall, utilcall, pool>>
    /\ UNCHANGED <<data, read_pos, write_pos, stream, reader, source, bychar>>

\* The caller calls read(); malformed input is terminal for the caller.
TokRead ==
    /\ pc # "failed"
    /\ \E r \in {read(data, read_pos, writable)} :
           /\ read_pos' = r.pos
           /\ tokens' = IF r.sig = "ok"
                        THEN Append(tokens, [src |-> r.src, value |-> r.value])
                        ELSE tokens
           /\ awaiting' = IF r.sig = "AwaitingData"
                          THEN [pos |-> r.pos, len |-> Len(data)]
                          ELSE awaiting
           /\ last' = Call("read", r.sig, r.arg)
           /\ pc' = IF r.sig \in {"UnexpectedCharacter", "ValueError"}
                    THEN "failed" ELSE pc
    /\ UNCHANGED <<percent, uricall, httpcall, utilcall, pool>>
    /\ UNCHANGED <<data, write_pos, writable, path, expectation, events,
                   opens, closes, source, bychar>>

NextTok == TokWrite \/ TokEnd \/ TokRead

SpecTok == InitTok /\ [][NextTok]_vars

\* ------------------------------------------------- JSONStream.__iter__

\* An iterator that asks its source for the next chunk whether or not the
\* tokeniser has signalled AwaitingData.
Fetch_undrained ==
    /\ pc \in {"fetch", "drain"}
    /\ \E k \in 1..Len(source) :
        LET w == Tokeniser_write(data, write_pos, read_pos, writable,
                                 SubSeq(source, 1, k))
        IN  /\ data' = w.data
            /\ write_pos' = w.write_pos
            /\ read_pos' = w.read_pos
            /\ last' = Call("write", w.sig, 0)
            /\ source' = SubSeq(source, k + 1, Len(source))
            /\ bychar' = (bychar /\ k = 1)
            /\ pc' = IF w.sig = "ok" THEN "drain" ELSE "failed"
    /\ UNCHANGED <<percent, uricall, httpcall, utilcall, pool>>
    /\ UNCHANGED <<writable, path, expectation, events, opens, closes,
                   reader>>

\* self.tokeniser.write(next(self.source))
Fetch ==
    /\ pc = "fetch"
    /\ \E k \in 1..Len(source) :
        LET w == Tokeniser_write(data, write_pos, read_pos, writable,
                                 SubSeq(source, 1, k))
        IN  /\ data' = w.data
            /\ write_pos' = w.write_pos
            /\ read_pos' = w.read_pos
            /\ last' = Call("write", w.sig, 0)
            /\ source' = SubSeq(source, k + 1, Len(source))
            /\ bychar' = (bychar /\ k = 1)
            /\ pc' = IF w.sig = "ok" THEN "drain" ELSE "failed"
    /\ UNCHANGED <<percent, uricall, httpcall, utilcall, pool>>
    /\ UNCHANGED <<writable, path, expectation, events, opens, closes,
                   reader>>

\* except StopIteration: self.tokeniser.end()
Exhausted ==
    /\ pc = "fetch"
    /\ source = << >>
    /\ writable' = FALSE
    /\ last' = Call("end", "ok", 0)
    /\ pc' = "drain"
    /\ UNCHANGED <<percent, uricall, httpcall, utilcall, pool>>
    /\ UNCHANGED <<data, read_pos, write_pos, path, expectation, events,
                   opens, closes, reader, source, bychar>>

\* read() returns a token and its handler accepts it.
Accept ==
    /\ pc = "drain"
    /\ \E r \in {read(data, read_pos, writable)} :
       \E h \in {Dispatch(path, expectation, r.src, r.value)} :
           /\ r.sig = "ok"
           /\ ~h.raised
           /\ read_pos' = r.pos
           /\ path' = h.path
           /\ expectation' = h.expectation
           /\ events' = events \o h.out
           /\ opens' = IF r.src \in {<<LBracket>>, <<LBrace>>}
                       THEN opens + 1 ELSE opens
           /\ closes' = IF r.src \in {<<RBracket>>, <<RBrace>>}
                        THEN closes + 1 ELSE closes
           /\ last' = Handling("ok", r.src)
    /\ UNCHANGED <<percent, uricall, httpcall, utilcall, pool>>
    /\ UNCHANGED <<data, write_pos, writable, pc, reader, source, bychar>>

\* read() returns a token and its handler raises UnexpectedCharacter(src).
Reject ==
    /\ pc = "drain"
    /\ \E r \in {read(data, read_pos, writable)} :
       \E h \in {Dispatch(path, expectation, r.src, r.value)} :
           /\ r.sig = "ok"
           /\ h.raised
           /\ read_pos' = r.pos
           /\ last' = Handling("UnexpectedCharacter", r.src)
    /\ pc' = "failed"
    /\ UNCHANGED <<percent, uricall, httpcall, utilcall, pool>>
    /\ UNCHANGED <<data, write_pos, writable, path, expectation, events,
                   opens, closes, reader, source, bychar>>

\* except AwaitingData: break
Await ==
    /\ pc = "drain"
    /\ \E r \in {read(data, read_pos, writable)} :
           /\ r.sig = "AwaitingData"
           /\ read_pos' = r.pos
           /\ last' = Call("read", r.sig, r.arg)
    /\ pc' = "fetch"
    /\ UNCHANGED <<percent, uricall, httpcall, utilcall, pool>>
    /\ UNCHANGED <<data, write_pos, writable, path, expectation, events,
                   opens, closes, reader, source, bychar>>

\* except EndOfStream: break
Finish ==
    /\ pc = "drain"
    /\ \E r \in {read(data, read_pos, writable)} :
           /\ r.sig = "EndOfStream"
           /\ read_pos' = r.pos
           /\ last' = Call("read", r.sig, r.arg)
    /\ pc' = "done"
    /\ UNCHANGED <<percent, uricall, httpcall, utilcall, pool>>
    /\ UNCHANGED <<data, write_pos, writable, path, expectation, events,
                   opens, closes, reader, source, bychar>>

\* read() raises UnexpectedCharacter or ValueError, which leaves __iter__.
Malformed ==
    /\ pc = "drain"
    /\ \E r \in {read(data, read_pos, writable)} :
           /\ r.sig \in {"UnexpectedCharacter", "ValueError"}
           /\ read_pos' = r.pos
           /\ last' = Call("read", r.sig, r.arg)
    /\ pc' = "failed"
    /\ UNCHANGED <<percent, uricall, httpcall, utilcall, pool>>
    /\ UNCHANGED <<data, write_pos, writable, path, expectation, events,
                   opens, closes, reader, source, bychar>>

Next == Fetch \/ Exhausted \/ Accept \/ Reject \/ Await \/ Finish \/ Malformed

Spec == Init /\ [][Next]_vars

\* One pass of the inner "while True" loop: a read() and what follows it.
Drain == Accept \/ Reject \/ Await \/ Finish \/ Malformed

\* The consumer keeps asking the iterator for the next event: __iter__ is
\* one sequential loop, so a step that can be taken is taken.  The outer
\* loop is weakly fair; so is the inner loop, whose weak fairness is written
\* out with its enabling condition: read() can be called exactly when the
\* iterator is in the inner loop.
SpecLive ==
    /\ Init /\ [][Next]_vars
    /\ WF_vars(Fetch \/ Exhausted)
    /\ ([]<>(pc # "drain") \/ []<><<Drain>>_vars)

\* ------------------------------- a caller of percent_encode and _decode

\* The characters of the strings given to percent_encode and
\* percent_decode: '%', a hexadecimal digit, a letter that is not one, a
\* reserved character, a control character, and characters beyond ASCII
\* and beyond Latin-1.
PercentAlphabet == {Percent, UpperA, Ord("g"), Slash, 9, 241, 256}

\* The safe arguments: none, a reserved character, a character beyond
\* Latin-1.
SafeSets == { {}, {Slash}, {Slash, 256} }

InitURI ==
    /\ InitObjects /\ source = << >>
    /\ InitPercent /\ InitParts
    /\ raw \in TextsOver(PercentAlphabet)
    /\ safe \in SafeSets

\* encoded = percent_encode(raw, safe=safe)
PercentEncode ==
    /\ step = "start"
    /\ encoded' = percent_encode(raw, safe)
    /\ step' = "encoded"
    /\ UNCHANGED <<tokeniser, stream, reader, source, last, bychar, httpcall,
                   utilcall, pool,
                   uricall, raw, safe, decoded>>

\* decoded = percent_decode(encoded)
PercentDecode ==
    /\ step = "encoded"
    /\ decoded' = percent_decode(encoded)
    /\ step' = "decoded"
    /\ UNCHANGED <<tokeniser, stream, reader, source, last, bychar, httpcall,
                   utilcall, pool,
                   uricall, raw, safe, encoded>>

\* decoded = percent_decode(raw): the string came from elsewhere.
PercentDecodeRaw ==
    /\ step = "start"
    /\ decoded' = percent_decode(raw)
    /\ step' = "received"
    /\ UNCHANGED <<tokeniser, stream, reader, source, last, bychar, httpcall,
                   utilcall, pool,
                   uricall, raw, safe, encoded>>

NextURI == PercentEncode \/ PercentDecode \/ PercentDecodeRaw

SpecURI == InitURI /\ [][NextURI]_vars

\* -------------------------------------------------------- Authority

At == Ord("@")

\* The value of decimal digits with underscores between them.
RECURSIVE DecNumber(_, _)
DecNumber(s, n) ==
    IF s = << >> THEN n
    ELSE IF s[1] = Underscore THEN DecNumber(Tail(s), n)
    ELSE DecNumber(Tail(s), 10 * n + (s[1] - Zero))

\* The digits of int(text), after the sign: decimal digits with single
\* underscores between them; ok = FALSE for ValueError.
int10_digits(body, negative) ==
    IF /\ body # << >>
       /\ body[1] \in DIGITS
       /\ body[Len(body)] \in DIGITS
       /\ \A i \in 1..Len(body) : body[i] \in DIGITS \/ body[i] = Underscore
       /\ \A i \in 1..(Len(body) - 1) :
              ~(body[i] = Underscore /\ body[i + 1] = Underscore)
    THEN [ok |-> TRUE,
          n |-> IF negative THEN 0 - DecNumber(body, 0)
                ELSE DecNumber(body, 0)]
    ELSE [ok |-> FALSE, n |-> 0]

\* int(text) of a text without whitespace around it: an optional sign.
int10_signed(t) ==
    IF t # << >> /\ t[1] \in {Plus, Minus}
    THEN int10_digits(Tail(t), t[1] = Minus)
    ELSE int10_digits(t, FALSE)

\* int(text)
int10(text) == int10_signed(rstrip(lstrip(text)))

\* str(n) of an integer
str_int(n) == IF n < 0 THEN <<Minus>> \o Decimal(0 - n) ELSE Decimal(n)

\* The second half of Authority.__init__: user_info and host of the string
\* left of the port, both percent-decoded.
Authority_user_host(string, port) ==
    IF Find(string, At) # {}
    THEN IF /\ percent_decode(rpartition(string, At)[1]).sig = "ok"
            /\ percent_decode(rpartition(string, At)[3]).sig = "ok"
         THEN [t |-> "Authority",
               user_info |->
                   StrV(percent_decode(rpartition(string, At)[1]).text),
               host |-> StrV(percent_decode(rpartition(string, At)[3]).text),
               port |-> port]
         ELSE Raised("ValueError")
    ELSE IF percent_decode(string).sig = "ok"
    THEN [t |-> "Authority", user_info |-> None,
          host |-> StrV(percent_decode(string).text), port |-> port]
    ELSE Raised("ValueError")

\* Authority(string) for a string: the text after the last ':' is the
\* port, whatever comes before it.
Authority(string) ==
    IF Find(string, Colon) # {}
    THEN IF int10(rpartition(string, Colon)[3]).ok
         THEN Authority_user_host(
                  rpartition(string, Colon)[1],
                  IntV(int10(rpartition(string, Colon)[3]).n))
         ELSE Raised("ValueError")
    ELSE Authority_user_host(string, None)

\* Authority.string: the user_info is encoded, the host is not.
Authority_string(a) ==
    (IF a.user_info # None
     THEN percent_encode(a.user_info.v, {}) \o <<At>> ELSE << >>)
    \o a.host.v
    \o (IF a.port # None THEN <<Colon>> \o str_int(a.port.v) ELSE << >>)

\* ---------------------------------------------- a caller of Authority

\* Authority strings: an optional user-info, a host, an optional port.
UserInfos ==
    { << >>, T(<<"u", "@">>), T(<<"u", ":", "p", "@">>),
      T(<<"b", "%", "4", "0", "e", "@">>), <<At>> }

Hosts == { T(<<"h">>), T(<<"h", "%", "4", "0", "x">>),
           T(<<"h", "%", "3", "A", "8">>), << >> }

Ports == { << >>, <<Colon>>, T(<<":", "8", "0">>), T(<<":", "8", "a">>),
           T(<<":", "-", "1">>) }

AuthorityTexts ==
    { u \o h \o p : u \in UserInfos, h \in Hosts, p \in Ports }
        \cup TextsOver({At, Colon, Ord("8"), LetterA})

InitAuthority ==
    /\ InitObjects /\ source = << >>
    /\ InitPercent /\ safe = {}
    /\ InitParts
    /\ raw \in AuthorityTexts

\* part = Authority(raw)
AuthorityInit ==
    /\ step = "start"
    /\ part' = Authority(raw)
    /\ args' = <<raw>>
    /\ step' = "parsed"
    /\ UNCHANGED <<tokeniser, stream, reader, source, last, bychar, httpcall,
                   utilcall, pool,
                   raw, safe, encoded, decoded>>

\* part = Authority(part.string)
AuthorityReparse ==
    /\ step = "parsed"
    /\ part.t = "Authority"
    /\ part' = Authority(Authority_string(part))
    /\ args' = <<part>>
    /\ step' = "reparsed"
    /\ UNCHANGED <<tokeniser, stream, reader, source, last, bychar, httpcall,
                   utilcall, pool,
                   raw, safe, encoded, decoded>>

NextAuthority == AuthorityInit \/ AuthorityReparse

SpecAuthority == InitAuthority /\ [][NextAuthority]_vars

\* ------------------------------------------------------------ Query

Amp == Ord("&")
Equals == Ord("=")

\* text.split(c)
RECURSIVE split(_, _)
split(text, c) ==
    IF Find(text, c) = {} THEN << text >>
    ELSE << partition(text, c)[1] >> \o split(partition(text, c)[3], c)

\* data[key] = value on an OrderedDict, kept as its items in order: a key
\* already present keeps its place and takes the new value.
setitem(d, key, value) ==
    IF \E i \in 1..Len(d) : d[i][1] = key
    THEN [i \in 1..Len(d) |-> IF d[i][1] = key THEN <<key, value>> ELSE d[i]]
    ELSE Append(d, <<key, value>>)

\* The key and value Query.decode reads from one bit: ok = FALSE when
\* percent_decode raises.
decode_pair(bit) ==
    IF Find(bit, Equals) # {}
    THEN [ok |-> /\ percent_decode(partition(bit, Equals)[1]).sig = "ok"
                 /\ percent_decode(partition(bit, Equals)[3]).sig = "ok",
          key |-> StrV(percent_decode(partition(bit, Equals)[1]).text),
          value |-> StrV(percent_decode(partition(bit, Equals)[3]).text)]
    ELSE [ok |-> percent_decode(bit).sig = "ok",
          key |-> StrV(percent_decode(bit).text),
          value |-> None]

\* The loop of Query.decode over the bits.
RECURSIVE decode_pairs(_, _)
decode_pairs(bits, d) ==
    IF bits = << >> THEN [t |-> "Query", query |-> d]
    ELSE IF ~ decode_pair(bits[1]).ok THEN Raised("ValueError")
    ELSE decode_pairs(Tail(bits),
                      setitem(d, decode_pair(bits[1]).key,
                              decode_pair(bits[1]).value))

\* Query(string) for a string: Query.decode(string) in self._query.
Query(string) ==
    IF string = << >> THEN [t |-> "Query", query |-> << >>]
    ELSE decode_pairs(split(string, Amp), << >>)

\* OrderedDict(pairs)
RECURSIVE OrderedDict(_, _)
OrderedDict(pairs, d) ==
    IF pairs = << >> THEN d
    ELSE OrderedDict(Tail(pairs), setitem(d, pairs[1][1], pairs[1][2]))

\* Query.encode(iterable) of a dict, given as its items.
encode_items(items) ==
    Joined([i \in 1..Len(items) |->
               IF items[i][2] = None
               THEN percent_encode(items[i][1].v, {})
               ELSE percent_encode(items[i][1].v, {}) \o <<Equals>>
                        \o percent_encode(items[i][2].v, {})],
           <<Amp>>)

\* Query.encode(iterable) of a list of strings.
encode_keys(keys) ==
    Joined([i \in 1..Len(keys) |-> percent_encode(keys[i].v, {})], <<Amp>>)

\* -------------------------------------------------- a caller of Query

\* The bits query strings are made of.
QueryBits ==
    { T(<<"a">>), T(<<"a", "=", "1">>), T(<<"a", "=", "2">>),
      T(<<"b", "=", "1">>), T(<<"b">>), T(<<"a", "=">>), <<Equals>>, << >> }

QueryTexts == { Joined(s, <<Amp>>) : s \in TextsOver(QueryBits) }

\* The pairs a caller encodes.
QueryKeys == { StrV(T(<<"a">>)), StrV(T(<<"b">>)), StrV(T(<<"&">>)) }
QueryValues == { None, StrV(T(<<"1">>)), StrV(<< >>) }
PairSeqs == TextsOver(QueryKeys \X QueryValues)

InitQuery ==
    /\ InitObjects /\ source = << >>
    /\ InitPercent /\ safe = {}
    /\ InitParts
    /\ raw \in QueryTexts

\* part = Query(raw)
QueryInit ==
    /\ step = "start"
    /\ part' = Query(raw)
    /\ args' = <<raw>>
    /\ step' = "parsed"
    /\ UNCHANGED <<tokeniser, stream, reader, source, last, bychar, httpcall,
                   utilcall, pool,
                   raw, safe, encoded, decoded>>

\* part = Query(Query.encode(OrderedDict(pairs))) for pairs of the caller
QueryOfItems ==
    /\ step = "start"
    /\ raw = << >>
    /\ \E pairs \in PairSeqs :
           /\ part' = Query(encode_items(OrderedDict(pairs, << >>)))
           /\ args' = pairs
    /\ step' = "recoded"
    /\ UNCHANGED <<tokeniser, stream, reader, source, last, bychar, httpcall,
                   utilcall, pool,
                   raw, safe, encoded, decoded>>

\* part = Query(Query.encode(keys)) for the keys of pairs without values
QueryOfKeys ==
    /\ step = "start"
    /\ raw = << >>
    /\ \E pairs \in PairSeqs :
           /\ \A i \in 1..Len(pairs) : pairs[i][2] = None
           /\ part' = Query(encode_keys([i \in 1..Len(pairs) |-> pairs[i][1]]))
           /\ args' = pairs
    /\ step' = "recoded"
    /\ UNCHANGED <<tokeniser, stream, reader, source, last, bychar, httpcall,
                   utilcall, pool,
                   raw, safe, encoded, decoded>>

NextQuery == QueryInit \/ QueryOfItems \/ QueryOfKeys

SpecQuery == InitQuery /\ [][NextQuery]_vars

\* -------------------------------------------------------------- URI

Hash == Ord("#")
Question == Ord("?")

\* percent_decode(string) as a Python value, or the exception.
decoded_str(string) ==
    IF percent_decode(string).sig = "ok"
    THEN StrV(percent_decode(string).text)
    ELSE Raised("ValueError")

\* The URI of five parts, unless making one of them raised.
URI_of(scheme, authority, upath, query, fragment) ==
    IF "ValueError" \in {scheme.t, authority.t, upath.t, query.t, fragment.t}
    THEN Raised("ValueError")
    ELSE [t |-> "URI", scheme |-> scheme, authority |-> authority,
          path |-> upath, query |-> query, fragment |-> fragment]

\* URI.__init__ from "# hierarchical part" on.
URI_hierarchical(scheme, fragment, query, value) ==
    IF startswith(value, <<Slash, Slash>>)
    THEN IF Find(From(value, 2), Slash) # {}
         THEN URI_of(scheme,
                     Authority(partition(From(value, 2), Slash)[1]),
                     Path(<<Slash>> \o partition(From(value, 2), Slash)[3]),
                     query, fragment)
         ELSE URI_of(scheme, Authority(From(value, 2)), Path(<< >>),
                     query, fragment)
    ELSE URI_of(scheme, None, Path(value), query, fragment)

\* URI.__init__ from "# query" on.
URI_query(scheme, fragment, value) ==
    IF Find(value, Question) # {}
    THEN URI_hierarchical(scheme, fragment,
                          Query(partition(value, Question)[3]),
                          partition(value, Question)[1])
    ELSE URI_hierarchical(scheme, fragment, None, value)

\* URI.__init__ from "# fragment" on.
URI_fragment(scheme, value) ==
    IF Find(value, Hash) # {}
    THEN URI_query(scheme, decoded_str(partition(value, Hash)[3]),
                   partition(value, Hash)[1])
    ELSE URI_query(scheme, None, value)

\* URI(value) for a string: the scheme is whatever precedes the first ':'.
URI(value) ==
    IF Find(value, Colon) # {}
    THEN URI_fragment(decoded_str(partition(value, Colon)[1]),
                      partition(value, Colon)[3])
    ELSE URI_fragment(None, value)

\* Path.segments with the last segment emptied, joined with "/".
directory(p) ==
    Joined([i \in 1..Len(split(p.path, Slash)) |->
               IF i = Len(split(p.path, Slash)) THEN << >>
               ELSE split(p.path, Slash)[i]],
           <<Slash>>)

\* The mutation of _merge_path: the last segment of the base path stays.
merge_path_whole(self, relative_path_reference) ==
    IF self.authority # None /\ Path_string(self.path) = << >>
    THEN Path(<<Slash>> \o Path_string(relative_path_reference))
    ELSE IF Find(Path_string(self.path), Slash) # {}
    THEN Path(self.path.path \o Path_string(relative_path_reference))
    ELSE relative_path_reference

\* URI._merge_path
merge_path(self, relative_path_reference) ==
    IF self.authority # None /\ Path_string(self.path) = << >>
    THEN Path(<<Slash>> \o Path_string(relative_path_reference))
    ELSE IF Find(Path_string(self.path), Slash) # {}
    THEN Path(directory(self.path) \o Path_string(relative_path_reference))
    ELSE relative_path_reference

\* remove_dot_segments of a path, unless making the path raised.
without_dots(p) ==
    IF p.t = "Path" THEN Path_remove_dot_segments(p) ELSE p

\* URI.resolve once reference_scheme is known.
transform(self, reference, reference_scheme) ==
    IF reference_scheme # None
    THEN URI_of(reference_scheme, reference.authority,
                without_dots(reference.path), reference.query,
                reference.fragment)
    ELSE IF reference.authority # None
    THEN URI_of(self.scheme, reference.authority,
                without_dots(reference.path), reference.query,
                reference.fragment)
    ELSE IF Path_string(reference.path) = << >>
    THEN URI_of(self.scheme, self.authority, self.path,
                IF reference.query # None THEN reference.query
                ELSE self.query,
                reference.fragment)
    ELSE IF startswith(Path_string(reference.path), <<Slash>>)
    THEN URI_of(self.scheme, self.authority,
                without_dots(reference.path), reference.query,
                reference.fragment)
    ELSE URI_of(self.scheme, self.authority,
                without_dots(merge_path(self, reference.path)),
                reference.query, reference.fragment)

\* The mutation of resolve: strict whatever the argument.
resolve_strictly(self, reference, strict) ==
    IF reference.t # "URI" THEN reference
    ELSE transform(self, reference, reference.scheme)

\* self.resolve(reference, strict) for a reference already cast to a URI.
resolve(self, reference, strict) ==
    IF reference.t # "URI" THEN reference
    ELSE transform(self, reference,
                   IF ~strict /\ reference.scheme = self.scheme THEN None
                   ELSE reference.scheme)

\* ---------------------------------------------------- a caller of URI

\* The base of RFC 3986 section 5.4.
RfcBase ==
    T(<<"h", "t", "t", "p", ":", "/", "/", "a", "/", "b", "/", "c", "/", "d", ";", "p", "?", "q">>)

\* The references of RFC 3986 sections 5.4.1 and 5.4.2 with their targets
\* for RfcBase.
Rfc54 ==
    { << T(<<"g", ":", "h">>),
         T(<<"g", ":", "h">>) >>,
      << T(<<"g">>),
         T(<<"h", "t", "t", "p", ":", "/", "/", "a", "/", "b", "/", "c", "/", "g">>) >>,
      << T(<<".", "/", "g">>),
         T(<<"h", "t", "t", "p", ":", "/", "/", "a", "/", "b", "/", "c", "/", "g">>) >>,
      << T(<<"g", "/">>),
         T(<<"h", "t", "t", "p", ":", "/", "/", "a", "/", "b", "/", "c", "/", "g", "/">>) >>,
      << T(<<"/", "g">>),
         T(<<"h", "t", "t", "p", ":", "/", "/", "a", "/", "g">>) >>,
      << T(<<"/", "/", "g">>),
         T(<<"h", "t", "t", "p", ":", "/", "/", "g">>) >>,
      << T(<<"?", "y">>),
         T(<<"h", "t", "t", "p", ":", "/", "/", "a", "/", "b", "/", "c", "/", "d", ";", "p", "?", "y">>) >>,
      << T(<<"g", "?", "y">>),
         T(<<"h", "t", "t", "p", ":", "/", "/", "a", "/", "b", "/", "c", "/", "g", "?", "y">>) >>,
      << T(<<"#", "s">>),
         T(<<"h", "t", "t", "p", ":", "/", "/", "a", "/", "b", "/", "c", "/", "d", ";", "p", "?", "q", "#", "s">>) >>,
      << T(<<"g", "#", "s">>),
         T(<<"h", "t", "t", "p", ":", "/", "/", "a", "/", "b", "/", "c", "/", "g", "#", "s">>) >>,
      << T(<<"g", "?", "y", "#", "s">>),
         T(<<"h", "t", "t", "p", ":", "/", "/", "a", "/", "b", "/", "c", "/", "g", "?", "y", "#", "s">>) >>,
      << T(<<";", "x">>),
         T(<<"h", "t", "t", "p", ":", "/", "/", "a", "/", "b", "/", "c", "/", ";", "x">>) >>,
      << T(<<"g", ";", "x">>),
         T(<<"h", "t", "t", "p", ":", "/", "/", "a", "/", "b", "/", "c", "/", "g", ";", "x">>) >>,
      << T(<<"g", ";", "x", "?", "y", "#", "s">>),
         T(<<"h", "t", "t", "p", ":", "/", "/", "a", "/", "b", "/", "c", "/", "g", ";", "x", "?", "y", "#", "s">>) >>,
      << << >>,
         T(<<"h", "t", "t", "p", ":", "/", "/", "a", "/", "b", "/", "c", "/", "d", ";", "p", "?", "q">>) >>,
      << T(<<".">>),
         T(<<"h", "t", "t", "p", ":", "/", "/", "a", "/", "b", "/", "c", "/">>) >>,
      << T(<<".", "/">>),
         T(<<"h", "t", "t", "p", ":", "/", "/", "a", "/", "b", "/", "c", "/">>) >>,
      << T(<<".", ".">>),
         T(<<"h", "t", "t", "p", ":", "/", "/", "a", "/", "b", "/">>) >>,
      << T(<<".", ".", "/">>),
         T(<<"h", "t", "t", "p", ":", "/", "/", "a", "/", "b", "/">>) >>,
      << T(<<".", ".", "/", "g">>),
         T(<<"h", "t", "t", "p", ":", "/", "/", "a", "/", "b", "/", "g">>) >>,
      << T(<<".", ".", "/", ".", ".">>),
         T(<<"h", "t", "t", "p", ":", "/", "/", "a", "/">>) >>,
      << T(<<".", ".", "/", ".", ".", "/">>),
         T(<<"h", "t", "t", "p", ":", "/", "/", "a", "/">>) >>,
      << T(<<".", ".", "/", ".", ".", "/", "g">>),
         T(<<"h", "t", "t", "p", ":", "/", "/", "a", "/", "g">>) >>,
      << T(<<".", ".", "/", ".", ".", "/", ".", ".", "/", "g">>),
         T(<<"h", "t", "t", "p", ":", "/", "/", "a", "/", "g">>) >>,
      << T(<<".", ".", "/", ".", ".", "/", ".", ".", "/", ".", ".", "/", "g">>),
         T(<<"h", "t", "t", "p", ":", "/", "/", "a", "/", "g">>) >>,
      << T(<<"/", ".", "/", "g">>),
         T(<<"h", "t", "t", "p", ":", "/", "/", "a", "/", "g">>) >>,
      << T(<<"/", ".", ".", "/", "g">>),
         T(<<"h", "t", "t", "p", ":", "/", "/", "a", "/", "g">>) >>,
      << T(<<"g", ".">>),
         T(<<"h", "t", "t", "p", ":", "/", "/", "a", "/", "b", "/", "c", "/", "g", ".">>) >>,
      << T(<<".", "g">>),
         T(<<"h", "t", "t", "p", ":", "/", "/", "a", "/", "b", "/", "c", "/", ".", "g">>) >>,
      << T(<<"g", ".", ".">>),
         T(<<"h", "t", "t", "p", ":", "/", "/", "a", "/", "b", "/", "c", "/", "g", ".", ".">>) >>,
      << T(<<".", ".", "g">>),
         T(<<"h", "t", "t", "p", ":", "/", "/", "a", "/", "b", "/", "c", "/", ".", ".", "g">>) >>,
      << T(<<".", "/", ".", ".", "/", "g">>),
         T(<<"h", "t", "t", "p", ":", "/", "/", "a", "/", "b", "/", "g">>) >>,
      << T(<<".", "/", "g", "/", ".">>),
         T(<<"h", "t", "t", "p", ":", "/", "/", "a", "/", "b", "/", "c", "/", "g", "/">>) >>,
      << T(<<"g", "/", ".", "/", "h">>),
         T(<<"h", "t", "t", "p", ":", "/", "/", "a", "/", "b", "/", "c", "/", "g", "/", "h">>) >>,
      << T(<<"g", "/", ".", ".", "/", "h">>),
         T(<<"h", "t", "t", "p", ":", "/", "/", "a", "/", "b", "/", "c", "/", "h">>) >>,
      << T(<<"g", ";", "x", "=", "1", "/", ".", "/", "y">>),
         T(<<"h", "t", "t", "p", ":", "/", "/", "a", "/", "b", "/", "c", "/", "g", ";", "x", "=", "1", "/", "y">>) >>,
      << T(<<"g", ";", "x", "=", "1", "/", ".", ".", "/", "y">>),
         T(<<"h", "t", "t", "p", ":", "/", "/", "a", "/", "b", "/", "c", "/", "y">>) >>,
      << T(<<"g", "?", "y", "/", ".", "/", "x">>),
         T(<<"h", "t", "t", "p", ":", "/", "/", "a", "/", "b", "/", "c", "/", "g", "?", "y", "/", ".", "/", "x">>) >>,
      << T(<<"g", "?", "y", "/", ".", ".", "/", "x">>),
         T(<<"h", "t", "t", "p", ":", "/", "/", "a", "/", "b", "/", "c", "/", "g", "?", "y", "/", ".", ".", "/", "x">>) >>,
      << T(<<"g", "#", "s", "/", ".", "/", "x">>),
         T(<<"h", "t", "t", "p", ":", "/", "/", "a", "/", "b", "/", "c", "/", "g", "#", "s", "/", ".", "/", "x">>) >>,
      << T(<<"g", "#", "s", "/", ".", ".", "/", "x">>),
         T(<<"h", "t", "t", "p", ":", "/", "/", "a", "/", "b", "/", "c", "/", "g", "#", "s", "/", ".", ".", "/", "x">>) >> }

SameSchemeRef == T(<<"h", "t", "t", "p", ":", "g">>)

\* The base URIs: the RFC's, the same with a fragment, one with an
\* authority and no path, and a relative one.
Bases ==
    { RfcBase, RfcBase \o T(<<"#", "f">>), T(<<"h", "t", "t", "p", ":", "/", "/", "a">>),
      T(<<"b">>) }

References == { r[1] : r \in Rfc54 } \cup { SameSchemeRef, <<Hash>> }

InitResolve ==
    /\ InitObjects /\ source = << >>
    /\ InitPercent /\ safe = {}
    /\ InitParts
    /\ raw \in Bases

\* part = URI(raw)
URIInit ==
    /\ step = "start"
    /\ part' = URI(raw)
    /\ args' = <<raw>>
    /\ step' = "parsed"
    /\ UNCHANGED <<tokeniser, stream, reader, source, last, bychar, httpcall,
                   utilcall, pool,
                   raw, safe, encoded, decoded>>

\* part = part.resolve(reference, strict)
URIResolve ==
    /\ step = "parsed"
    /\ part.t = "URI"
    /\ \E reference \in References, strict \in BOOLEAN :
           /\ part' = resolve(part, URI(reference), strict)
           /\ args' = [reference |-> reference, strict |-> strict]
    /\ step' = "resolved"
    /\ UNCHANGED <<tokeniser, stream, reader, source, last, bychar, httpcall,
                   utilcall, pool,
                   raw, safe, encoded, decoded>>

NextResolve == URIInit \/ URIResolve

SpecResolve == InitResolve /\ [][NextResolve]_vars

\* ------------------------------------------------------ URITemplate

Star == Ord("*")

\* A tuple of Python values.
TupleV(s) == [t |-> "tuple", v |-> s]

\* reserved = general_delimiters | subcomponent_delimiters
reserved ==
    { Ord(c) : c \in { ":", "/", "?", "#", "[", "]", "@", "!", "$", "&", "'",
                       "(", ")", "*", "+", ",", ";", "=" } }

\* A local variable no assignment has reached yet.
Unbound == [t |-> "unbound", v |-> 0]

\* self.values.get(key)
get(values, key) == IF key \in DOMAIN values THEN values[key] ELSE None

\* text[:n]
UpTo(text, n) ==
    IF n >= Len(text) THEN text
    ELSE IF n >= 0 THEN SubSeq(text, 1, n)
    ELSE IF Len(text) + n > 0 THEN SubSeq(text, 1, Len(text) + n)
    ELSE << >>

\* The items collect returns: those whose value is not None.
Collected(items) ==
    LET defined(item) == item[2] # None
    IN  [t |-> "items", items |-> SelectSeq(items, defined)]

RECURSIVE collect(_, _, _, _)

\* The body of the loop of collect once key, explode and max_length are
\* set: the branches on the type of the value.
collect_value(values, keys, key, explode, max_length, value, items) ==
    IF value.t = "dict"
    THEN IF value.v = << >>
         THEN collect(values, keys, max_length, Append(items, <<key, None>>))
         ELSE IF explode
         THEN collect(values, keys, max_length,
                      items \o [i \in 1..Len(value.v) |->
                                   <<key, TupleV(value.v[i])>>])
         ELSE collect(values, keys, max_length, Append(items, <<key, value>>))
    ELSE IF value.t = "list"
    THEN IF explode
         THEN collect(values, keys, max_length,
                      items \o [i \in 1..Len(value.v) |-> <<key, value.v[i]>>])
         ELSE collect(values, keys, max_length, Append(items, <<key, value>>))
    ELSE IF max_length = Unbound
    THEN Raised("UnboundLocalError")
    ELSE IF max_length # None
    THEN IF value = None THEN Raised("TypeError")
         ELSE collect(values, keys, max_length,
                      Append(items,
                             <<key, StrV(UpTo(value.v, max_length.v))>>))
    ELSE collect(values, keys, max_length, Append(items, <<key, value>>))

\* _Expander.collect(*keys): the loop over the keys left, with the value
\* max_length has from the keys before (a key ending in '*' leaves it as it
\* is), and the items so far.
collect(values, keys, max_length, items) ==
    IF keys = << >> THEN Collected(items)
    ELSE IF keys[1] # << >> /\ keys[1][Len(keys[1])] = Star
    THEN collect_value(values, Tail(keys),
                       SubSeq(keys[1], 1, Len(keys[1]) - 1), TRUE, max_length,
                       get(values, SubSeq(keys[1], 1, Len(keys[1]) - 1)),
                       items)
    ELSE IF Find(keys[1], Colon) # {}
    THEN IF int10(partition(keys[1], Colon)[3]).ok
         THEN collect_value(values, Tail(keys),
                            partition(keys[1], Colon)[1], FALSE,
                            IntV(int10(partition(keys[1], Colon)[3]).n),
                            get(values, partition(keys[1], Colon)[1]),
                            items)
         ELSE Raised("ValueError")
    ELSE collect_value(values, Tail(keys), keys[1], FALSE, None,
                       get(values, keys[1]), items)

\* sep.join(map(encode, strings))
encode_join(strings, safe_set, sep) ==
    Joined([i \in 1..Len(strings) |-> percent_encode(strings[i].v, safe_set)],
           sep)

\* The text _expand makes of a value that is no tuple, before the key is
\* put in front.
value_text(value, safe_set) ==
    IF value.t = "dict"
    THEN Joined([i \in 1..Len(value.v) |->
                    encode_join(value.v[i], safe_set, <<Comma>>)], <<Comma>>)
    ELSE IF value.t = "list"
    THEN encode_join(value.v, safe_set, <<Comma>>)
    ELSE percent_encode(value.v, safe_set)

\* The text _expand makes of one item.
item_text(key, value, safe_set, with_keys, trim_empty_equals) ==
    IF value.t = "tuple" THEN encode_join(value.v, safe_set, <<Equals>>)
    ELSE IF ~ with_keys THEN value_text(value, safe_set)
    ELSE IF value_text(value, safe_set) # << >> \/ ~ trim_empty_equals
    THEN percent_encode(key, safe_set) \o <<Equals>> \o value_text(value, safe_set)
    ELSE percent_encode(key, safe_set)

\* The second half of _expand: the items as one string.
join_items(c, safe_set, prefix, separator, with_keys, trim_empty_equals) ==
    IF c.t # "items" THEN c
    ELSE StrV(Concat([i \in 1..Len(c.items) |->
                  (IF i = 1 THEN prefix ELSE separator)
                      \o item_text(c.items[i][1], c.items[i][2], safe_set,
                                   with_keys, trim_empty_equals)]))

\* _Expander._expand
expand_expression(values, expression, safe_set, prefix, separator, with_keys,
                  trim_empty_equals) ==
    join_items(collect(values, split(expression, Comma), Unbound, << >>),
               safe_set, prefix, separator, with_keys, trim_empty_equals)

\* _Expander.expand(expression)
Expander_expand(values, expression) ==
    IF expression = << >> THEN StrV(<< >>)
    ELSE IF expression[1] = Plus
    THEN expand_expression(values, Tail(expression), reserved,
                           << >>, <<Comma>>, FALSE, FALSE)
    ELSE IF expression[1] = Hash
    THEN expand_expression(values, Tail(expression), reserved,
                           <<Hash>>, <<Comma>>, FALSE, FALSE)
    ELSE IF expression[1] = Dot
    THEN expand_expression(values, Tail(expression), {},
                           <<Dot>>, <<Dot>>, FALSE, FALSE)
    ELSE IF expression[1] = Slash
    THEN expand_expression(values, Tail(expression), {},
                           <<Slash>>, <<Slash>>, FALSE, FALSE)
    ELSE IF expression[1] = Ord(";")
    THEN expand_expression(values, Tail(expression), {},
                           <<Ord(";")>>, <<Ord(";")>>, TRUE, TRUE)
    ELSE IF expression[1] = Question
    THEN expand_expression(values, Tail(expression), {},
                           <<Question>>, <<Amp>>, TRUE, FALSE)
    ELSE IF expression[1] = Amp
    THEN expand_expression(values, Tail(expression), {},
                           <<Amp>>, <<Amp>>, TRUE, FALSE)
    ELSE expand_expression(values, expression, {},
                           << >>, <<Comma>>, FALSE, FALSE)

\* The matches of _tokeniser, "(\{)([^{}]*)(\})", in the template: the
\* positions of the braces.
Expressions(template) ==
    { m \in (1..Len(template)) \X (1..Len(template)) :
        /\ m[1] < m[2]
        /\ template[m[1]] = LBrace
        /\ template[m[2]] = RBrace
        /\ \A k \in (m[1] + 1)..(m[2] - 1) :
               template[k] \notin {LBrace, RBrace} }

\* The first match.
FirstExpression(template) ==
    CHOOSE m \in Expressions(template) :
        \A n \in Expressions(template) : m[1] <= n[1]

\* self._tokeniser.split(self._template): the texts between the matches,
\* and for every match its three groups.
RECURSIVE tokens_of(_)
tokens_of(template) ==
    IF Expressions(template) = {} THEN << template >>
    ELSE << SubSeq(template, 1, FirstExpression(template)[1] - 1),
            <<LBrace>>,
            SubSeq(template, FirstExpression(template)[1] + 1,
                   FirstExpression(template)[2] - 1),
            <<RBrace>> >>
             \o tokens_of(From(template, FirstExpression(template)[2]))

RECURSIVE expand_tokens(_, _, _)

\* One expression of the loop of URITemplate.expand, expanded.
expand_token(rest, values, out, expansion) ==
    IF expansion.t # "str" THEN expansion
    ELSE expand_tokens(rest, values, out \o expansion.v)

\* The loop of URITemplate.expand over the tokens: "".join(out). A token
\* "{" takes the two tokens after it, whether it is a match or a text.
expand_tokens(tokens_left, values, out) ==
    IF tokens_left = << >> THEN StrV(out)
    ELSE IF tokens_left[1] = <<LBrace>>
    THEN IF Len(tokens_left) < 3 THEN Raised("IndexError")
         ELSE expand_token(SubSeq(tokens_left, 4, Len(tokens_left)), values,
                           out, Expander_expand(values, tokens_left[2]))
    ELSE expand_tokens(Tail(tokens_left), values, out \o tokens_left[1])

\* "".join(out) of URITemplate.expand
expanded_text(template, values) ==
    expand_tokens(tokens_of(template), values, << >>)

\* The URI of the text, unless making the text raised.
URI_of_text(text) == IF text.t = "str" THEN URI(text.v) ELSE text

\* URITemplate(template).expand(**values)
URITemplate_expand(template, values) ==
    URI_of_text(expanded_text(template, values))

\* ------------------------------------------- a caller of URITemplate

\* The variables of the expansion tests, and an empty list.
Variables ==
    (T(<<"v", "a", "r">>) :> StrV(T(<<"v", "a", "l", "u", "e">>)))
    @@ (T(<<"h", "e", "l", "l", "o">>) :> StrV(T(<<"H", "e", "l", "l", "o", " ", "W", "o", "r", "l", "d", "!">>)))
    @@ (T(<<"e", "m", "p", "t", "y">>) :> StrV(<< >>))
    @@ (T(<<"u", "n", "d", "e", "f">>) :> None)
    @@ (T(<<"x">>) :> StrV(T(<<"1", "0", "2", "4">>)))
    @@ (T(<<"y">>) :> StrV(T(<<"7", "6", "8">>)))
    @@ (T(<<"l", "i", "s", "t">>) :>
            ListV(<< StrV(T(<<"r", "e", "d">>)), StrV(T(<<"g", "r", "e", "e", "n">>)),
                     StrV(T(<<"b", "l", "u", "e">>)) >>))
    @@ (T(<<"k", "e", "y", "s">>) :>
            DictV(<< << StrV(T(<<"s", "e", "m", "i">>)), StrV(T(<<";">>)) >>,
                     << StrV(T(<<"d", "o", "t">>)), StrV(T(<<".">>)) >>,
                     << StrV(T(<<"c", "o", "m", "m", "a">>)), StrV(T(<<",">>)) >> >>))
    @@ (T(<<"e", "m", "p", "t", "y", "_", "k", "e", "y", "s">>) :> DictV(<< >>))
    @@ (T(<<"n", "o", "l", "i", "s", "t">>) :> ListV(<< >>))

\* Templates of the expansion tests with the expansions RFC 6570 section
\* 3.2 lists for them.
Rfc6570 ==
    { << T(<<"{", "v", "a", "r", "}">>),
         T(<<"v", "a", "l", "u", "e">>) >>,
      << T(<<"{", "h", "e", "l", "l", "o", "}">>),
         T(<<"H", "e", "l", "l", "o", "%", "2", "0", "W", "o", "r", "l", "d", "%", "2", "1">>) >>,
      << T(<<"O", "{", "e", "m", "p", "t", "y", "}", "X">>),
         T(<<"O", "X">>) >>,
      << T(<<"O", "{", "u", "n", "d", "e", "f", "}", "X">>),
         T(<<"O", "X">>) >>,
      << T(<<"{", "x", ",", "y", "}">>),
         T(<<"1", "0", "2", "4", ",", "7", "6", "8">>) >>,
      << T(<<"{", "v", "a", "r", ":", "3", "}">>),
         T(<<"v", "a", "l">>) >>,
      << T(<<"{", "l", "i", "s", "t", "}">>),
         T(<<"r", "e", "d", ",", "g", "r", "e", "e", "n", ",", "b", "l", "u", "e">>) >>,
      << T(<<"{", "l", "i", "s", "t", "*", "}">>),
         T(<<"r", "e", "d", ",", "g", "r", "e", "e", "n", ",", "b", "l", "u", "e">>) >>,
      << T(<<"{", "k", "e", "y", "s", "}">>),
         T(<<"s", "e", "m", "i", ",", "%", "3", "B", ",", "d", "o", "t", ",", ".", ",", "c", "o", "m", "m", "a", ",", "%", "2", "C">>) >>,
      << T(<<"{", "k", "e", "y", "s", "*", "}">>),
         T(<<"s", "e", "m", "i", "=", "%", "3", "B", ",", "d", "o", "t", "=", ".", ",", "c", "o", "m", "m", "a", "=", "%", "2", "C">>) >>,
      << T(<<"{", "+", "h", "e", "l", "l", "o", "}">>),
         T(<<"H", "e", "l", "l", "o", "%", "2", "0", "W", "o", "r", "l", "d", "!">>) >>,
      << T(<<"{", "+", "x", ",", "h", "e", "l", "l", "o", ",", "y", "}">>),
         T(<<"1", "0", "2", "4", ",", "H", "e", "l", "l", "o", "%", "2", "0", "W", "o", "r", "l", "d", "!", ",", "7", "6", "8">>) >>,
      << T(<<"{", "+", "l", "i", "s", "t", "*", "}">>),
         T(<<"r", "e", "d", ",", "g", "r", "e", "e", "n", ",", "b", "l", "u", "e">>) >>,
      << T(<<"{", "+", "k", "e", "y", "s", "}">>),
         T(<<"s", "e", "m", "i", ",", ";", ",", "d", "o", "t", ",", ".", ",", "c", "o", "m", "m", "a", ",", ",">>) >>,
      << T(<<"O", "{", "+", "u", "n", "d", "e", "f", "}", "X">>),
         T(<<"O", "X">>) >>,
      << T(<<"{", "#", "h", "e", "l", "l", "o", "}">>),
         T(<<"#", "H", "e", "l", "l", "o", "%", "2", "0", "W", "o", "r", "l", "d", "!">>) >>,
      << T(<<"f", "o", "o", "{", "#", "e", "m", "p", "t", "y", "}">>),
         T(<<"f", "o", "o", "#">>) >>,
      << T(<<"f", "o", "o", "{", "#", "u", "n", "d", "e", "f", "}">>),
         T(<<"f", "o", "o">>) >>,
      << T(<<"{", "#", "k", "e", "y", "s", "*", "}">>),
         T(<<"#", "s", "e", "m", "i", "=", ";", ",", "d", "o", "t", "=", ".", ",", "c", "o", "m", "m", "a", "=", ",">>) >>,
      << T(<<"X", "{", ".", "v", "a", "r", "}">>),
         T(<<"X", ".", "v", "a", "l", "u", "e">>) >>,
      << T(<<"X", "{", ".", "e", "m", "p", "t", "y", "}">>),
         T(<<"X", ".">>) >>,
      << T(<<"X", "{", ".", "u", "n", "d", "e", "f", "}">>),
         T(<<"X">>) >>,
      << T(<<"X", "{", ".", "v", "a", "r", ":", "3", "}">>),
         T(<<"X", ".", "v", "a", "l">>) >>,
      << T(<<"X", "{", ".", "l", "i", "s", "t", "*", "}">>),
         T(<<"X", ".", "r", "e", "d", ".", "g", "r", "e", "e", "n", ".", "b", "l", "u", "e">>) >>,
      << T(<<"X", "{", ".", "k", "e", "y", "s", "*", "}">>),
         T(<<"X", ".", "s", "e", "m", "i", "=", "%", "3", "B", ".", "d", "o", "t", "=", ".", ".", "c", "o", "m", "m", "a", "=", "%", "2", "C">>) >>,
      << T(<<"X", "{", ".", "e", "m", "p", "t", "y", "_", "k", "e", "y", "s", "}">>),
         T(<<"X">>) >>,
      << T(<<"X", "{", ".", "e", "m", "p", "t", "y", "_", "k", "e", "y", "s", "*", "}">>),
         T(<<"X">>) >>,
      << T(<<"{", "/", "v", "a", "r", ",", "e", "m", "p", "t", "y", "}">>),
         T(<<"/", "v", "a", "l", "u", "e", "/">>) >>,
      << T(<<"{", "/", "v", "a", "r", ",", "u", "n", "d", "e", "f", "}">>),
         T(<<"/", "v", "a", "l", "u", "e">>) >>,
      << T(<<"{", "/", "v", "a", "r", ":", "1", ",", "v", "a", "r", "}">>),
         T(<<"/", "v", "/", "v", "a", "l", "u", "e">>) >>,
      << T(<<"{", "/", "l", "i", "s", "t", "}">>),
         T(<<"/", "r", "e", "d", ",", "g", "r", "e", "e", "n", ",", "b", "l", "u", "e">>) >>,
      << T(<<"{", "/", "l", "i", "s", "t", "*", "}">>),
         T(<<"/", "r", "e", "d", "/", "g", "r", "e", "e", "n", "/", "b", "l", "u", "e">>) >>,
      << T(<<"{", "/", "k", "e", "y", "s", "*", "}">>),
         T(<<"/", "s", "e", "m", "i", "=", "%", "3", "B", "/", "d", "o", "t", "=", ".", "/", "c", "o", "m", "m", "a", "=", "%", "2", "C">>) >>,
      << T(<<"{", ";", "e", "m", "p", "t", "y", "}">>),
         T(<<";", "e", "m", "p", "t", "y">>) >>,
      << T(<<"{", ";", "x", ",", "y", "}">>),
         T(<<";", "x", "=", "1", "0", "2", "4", ";", "y", "=", "7", "6", "8">>) >>,
      << T(<<"{", ";", "x", ",", "y", ",", "e", "m", "p", "t", "y", "}">>),
         T(<<";", "x", "=", "1", "0", "2", "4", ";", "y", "=", "7", "6", "8", ";", "e", "m", "p", "t", "y">>) >>,
      << T(<<"{", ";", "x", ",", "y", ",", "u", "n", "d", "e", "f", "}">>),
         T(<<";", "x", "=", "1", "0", "2", "4", ";", "y", "=", "7", "6", "8">>) >>,
      << T(<<"{", ";", "h", "e", "l", "l", "o", ":", "5", "}">>),
         T(<<";", "h", "e", "l", "l", "o", "=", "H", "e", "l", "l", "o">>) >>,
      << T(<<"{", ";", "l", "i", "s", "t", "*", "}">>),
         T(<<";", "l", "i", "s", "t", "=", "r", "e", "d", ";", "l", "i", "s", "t", "=", "g", "r", "e", "e", "n", ";", "l", "i", "s", "t", "=", "b", "l", "u", "e">>) >>,
      << T(<<"{", ";", "k", "e", "y", "s", "*", "}">>),
         T(<<";", "s", "e", "m", "i", "=", "%", "3", "B", ";", "d", "o", "t", "=", ".", ";", "c", "o", "m", "m", "a", "=", "%", "2", "C">>) >>,
      << T(<<"{", "?", "x", ",", "y", "}">>),
         T(<<"?", "x", "=", "1", "0", "2", "4", "&", "y", "=", "7", "6", "8">>) >>,
      << T(<<"{", "?", "x", ",", "y", ",", "e", "m", "p", "t", "y", "}">>),
         T(<<"?", "x", "=", "1", "0", "2", "4", "&", "y", "=", "7", "6", "8", "&", "e", "m", "p", "t", "y", "=">>) >>,
      << T(<<"{", "?", "x", ",", "y", ",", "u", "n", "d", "e", "f", "}">>),
         T(<<"?", "x", "=", "1", "0", "2", "4", "&", "y", "=", "7", "6", "8">>) >>,
      << T(<<"{", "?", "v", "a", "r", ":", "3", "}">>),
         T(<<"?", "v", "a", "r", "=", "v", "a", "l">>) >>,
      << T(<<"{", "?", "l", "i", "s", "t", "}">>),
         T(<<"?", "l", "i", "s", "t", "=", "r", "e", "d", ",", "g", "r", "e", "e", "n", ",", "b", "l", "u", "e">>) >>,
      << T(<<"{", "?", "l", "i", "s", "t", "*", "}">>),
         T(<<"?", "l", "i", "s", "t", "=", "r", "e", "d", "&", "l", "i", "s", "t", "=", "g", "r", "e", "e", "n", "&", "l", "i", "s", "t", "=", "b", "l", "u", "e">>) >>,
      << T(<<"{", "?", "k", "e", "y", "s", "*", "}">>),
         T(<<"?", "s", "e", "m", "i", "=", "%", "3", "B", "&", "d", "o", "t", "=", ".", "&", "c", "o", "m", "m", "a", "=", "%", "2", "C">>) >>,
      << T(<<"{", "&", "x", ",", "y", ",", "e", "m", "p", "t", "y", "}">>),
         T(<<"&", "x", "=", "1", "0", "2", "4", "&", "y", "=", "7", "6", "8", "&", "e", "m", "p", "t", "y", "=">>) >>,
      << T(<<"{", "&", "x", ",", "y", ",", "u", "n", "d", "e", "f", "}">>),
         T(<<"&", "x", "=", "1", "0", "2", "4", "&", "y", "=", "7", "6", "8">>) >>,
      << T(<<"{", "&", "v", "a", "r", ":", "3", "}">>),
         T(<<"&", "v", "a", "r", "=", "v", "a", "l">>) >>,
      << T(<<"{", "&", "l", "i", "s", "t", "*", "}">>),
         T(<<"&", "l", "i", "s", "t", "=", "r", "e", "d", "&", "l", "i", "s", "t", "=", "g", "r", "e", "e", "n", "&", "l", "i", "s", "t", "=", "b", "l", "u", "e">>) >>,
      << T(<<"{", "&", "k", "e", "y", "s", "}">>),
         T(<<"&", "k", "e", "y", "s", "=", "s", "e", "m", "i", ",", "%", "3", "B", ",", "d", "o", "t", ",", ".", ",", "c", "o", "m", "m", "a", ",", "%", "2", "C">>) >> }

\* The operators of an expression, none included.
Operators ==
    { << >>, <<Plus>>, <<Hash>>, <<Dot>>, <<Slash>>, T(<<";">>),
      <<Question>>, <<Amp>> }

\* Variable names: a string, a list, a dict, None, one that is not bound,
\* an empty list and an empty dict.
Names ==
    { T(<<"v", "a", "r">>), T(<<"l", "i", "s", "t">>),
      T(<<"k", "e", "y", "s">>), T(<<"u", "n", "d", "e", "f">>),
      T(<<"a", "b", "s", "e", "n", "t">>), T(<<"n", "o", "l", "i", "s", "t">>),
      T(<<"e", "m", "p", "t", "y", "_", "k", "e", "y", "s">>) }

Modifiers == { << >>, T(<<":", "3">>), <<Star>> }

VarSpecs == { n \o m : n \in Names, m \in Modifiers }

MaxVarSpecs == 2

\* 'X{' operator varspec,...,varspec '}'
Expression(operator, varspecs) ==
    T(<<"X", "{">>) \o operator \o Joined(varspecs, <<Comma>>) \o <<RBrace>>

Templates ==
    { r[1] : r \in Rfc6570 }
        \cup { Expression(o, s) :
                 o \in Operators,
                 s \in UNION { [1..n -> VarSpecs] : n \in 1..MaxVarSpecs } }

InitTemplate ==
    /\ InitObjects /\ source = << >>
    /\ InitPercent /\ safe = {}
    /\ InitParts
    /\ raw = << >>

\* part = URITemplate(template).expand(**Variables)
TemplateExpand ==
    /\ step = "start"
    /\ \E template \in Templates :
           /\ part' = URITemplate_expand(template, Variables)
           /\ args' = [template |-> template]
    /\ step' = "expanded"
    /\ UNCHANGED <<tokeniser, stream, reader, source, last, bychar, httpcall,
                   utilcall, pool,
                   raw, safe, encoded, decoded>>

NextTemplate == TemplateExpand

SpecTemplate == InitTemplate /\ [][NextTemplate]_vars

\* --------------------------------------------------- a caller of Path

\* The pieces paths are made of: separators, dot segments, a letter, an
\* escaped '/', and a character beyond Latin-1 (U+02F0).
PathPieces ==
    { <<Slash>>, Dots1, Dots2, <<LetterA>>,
      <<Percent, Ord("2"), UpperF>>, <<752>> }

PathTexts == { Concat(s) : s \in TextsOver(PathPieces) }

InitPath ==
    /\ InitObjects /\ source = << >>
    /\ InitPercent /\ safe = {}
    /\ InitParts
    /\ raw \in PathTexts

\* part = Path(raw)
PathInit ==
    /\ step = "start"
    /\ part' = Path(raw)
    /\ args' = <<raw>>
    /\ step' = "parsed"
    /\ UNCHANGED <<tokeniser, stream, reader, source, last, bychar, httpcall,
                   utilcall, pool,
                   raw, safe, encoded, decoded>>

\* part = part.remove_dot_segments(), at most twice
PathRemoveDotSegments ==
    /\ step \in {"parsed", "normalised"}
    /\ part.t = "Path"
    /\ part' = Path_remove_dot_segments(part)
    /\ args' = <<part>>
    /\ step' = IF step = "parsed" THEN "normalised" ELSE "renormalised"
    /\ UNCHANGED <<tokeniser, stream, reader, source, last, bychar, httpcall,
                   utilcall, pool,
                   raw, safe, encoded, decoded>>

NextPath == PathInit \/ PathRemoveDotSegments

SpecPath == InitPath /\ [][NextPath]_vars

\* ------------------------------------------------------------- Response

CarriageReturn == 13
LineFeed == 10

default_chunk_size == 4096

\* bytes.decode("utf-8") for bytes that are ASCII or belong to two-byte
\* sequences: a lead byte takes one continuation byte, and a lead without
\* one, or a continuation byte without a lead, is a UnicodeDecodeError.
RECURSIVE utf8_decode(_, _)
utf8_decode(bytes, out) ==
    IF bytes = << >> THEN StrV(out)
    ELSE IF bytes[1] < 128
    THEN utf8_decode(Tail(bytes), Append(out, bytes[1]))
    ELSE IF /\ bytes[1] \in 194..223
            /\ Len(bytes) >= 2
            /\ bytes[2] \in 128..191
    THEN utf8_decode(From(bytes, 2),
                     Append(out, (bytes[1] - 192) * 64 + bytes[2] - 128))
    ELSE Raised("UnicodeDecodeError")

\* Response._decode: data.decode(self.encoding); a byte of ISO-8859-1 is
\* the code point of its character.
Response_decode(self, bytes) ==
    IF self.encoding = "utf-8" THEN utf8_decode(bytes, << >>)
    ELSE StrV(bytes)

\* Response.read(size): the bytes read and the response after it; the
\* response is closed when a read of a size returns nothing.
Response_read(self, size) ==
    [data |-> UpTo(self.body, size),
     self |-> [self EXCEPT !.body = From(self.body, size),
                           !.closed = @ \/ self.body = << >>]]

\* "".join(self._decode(item) for item in pending): each item is decoded
\* on its own.
RECURSIVE decode_items(_, _, _)
decode_item(self, pending, out, item) ==
    IF item.t = "str"
    THEN decode_items(self, Tail(pending), out \o item.v)
    ELSE item

decode_items(self, pending, out) ==
    IF pending = << >> THEN StrV(out)
    ELSE decode_item(self, pending, out, Response_decode(self, pending[1]))

\* One step of the generator of iter_chunks, from the read of a chunk to
\* the next yield or to the end of the generator: a chunk that cannot be
\* decoded is retried with one more byte read and appended to pending.
RECURSIVE iter_chunks_decode(_, _)
iter_chunks_retry(r, pending) ==
    IF r.data = << >>
    THEN [self |-> [r.self EXCEPT !.closed = TRUE], chunk |-> None]
    ELSE iter_chunks_decode(r.self, Append(pending, r.data))

iter_chunks_yield(self, pending, joined) ==
    IF joined.t = "str" THEN [self |-> self, chunk |-> joined]
    ELSE iter_chunks_retry(Response_read(self, 1), pending)

iter_chunks_decode(self, pending) ==
    iter_chunks_yield(self, pending, decode_items(self, pending, << >>))

iter_chunks(self) ==
    iter_chunks_retry(Response_read(self, self.chunk_size), << >>)

\* str.find: the index of the first c, from 0, or -1.
find(text, c) == IF Find(text, c) = {} THEN 0 - 1 ELSE First(Find(text, c)) - 1

\* The end of the first line of data in iter_lines: eol_pos and eol_len.
eol(cr, lf) ==
    IF cr >= 0 /\ lf = cr + 1 THEN [pos |-> cr, len |-> 2]
    ELSE IF cr >= 0 /\ lf >= 0
    THEN [pos |-> IF cr <= lf THEN cr ELSE lf, len |-> 1]
    ELSE [pos |-> IF cr >= 0 THEN cr ELSE lf, len |-> 1]

\* line, data = data[:x], data[x:] or data[:eol_pos], data[x:]
split_line(text, e, keep_ends) ==
    [line |-> UpTo(text, IF keep_ends THEN e.pos + e.len ELSE e.pos),
     data |-> From(text, e.pos + e.len)]

has_eol(text) == Find(text, CarriageReturn) # {} \/ Find(text, LineFeed) # {}

\* ------------------------------------------------ a reader of a Response

\* The bytes of the bodies: the line ends, a letter, and the two bytes of
\* e-acute in UTF-8 (a byte pair that is two characters in ISO-8859-1).
BodyBytes == {CarriageReturn, LineFeed, Ord("a"), 195, 169}

Encodings == {"ISO-8859-1", "utf-8"}

ChunkSizes == (1..MaxLen) \cup {default_chunk_size}

InitResponse ==
    /\ InitObjects /\ source = << >>
    /\ InitPercent /\ safe = {}
    /\ InitParts
    /\ raw \in TextsOver(BodyBytes)

\* Response(http, uri, request, rs, chunk_size=n), and iter_lines(keep_ends)
\* called on it: nothing is read before the first next().
ResponseInit ==
    /\ step = "start"
    /\ \E n \in ChunkSizes, e \in Encodings :
           response' = [t |-> "Response", body |-> raw, encoding |-> e,
                        chunk_size |-> n, closed |-> FALSE]
    /\ \E k \in BOOLEAN :
           lines' = [t |-> "iter_lines", data |-> << >>, yielded |-> << >>,
                     keep_ends |-> k, chunks |-> TRUE]
    /\ step' = "iterating"
    /\ UNCHANGED <<tokeniser, stream, reader, source, last, bychar, uricall,
                   utilcall, pool,
                   raw, safe, encoded, decoded, request, network>>

\* The for loop of iter_lines takes the next chunk: data += chunk, or the
\* loop ends when iter_chunks does.
LinesChunk ==
    /\ step = "iterating"
    /\ lines.chunks
    /\ ~has_eol(lines.data)
    /\ \E c \in {iter_chunks(response)} :
           /\ response' = c.self
           /\ lines' = IF c.chunk = None
                       THEN [lines EXCEPT !.chunks = FALSE]
                       ELSE [lines EXCEPT !.data = @ \o c.chunk.v]
    /\ UNCHANGED <<tokeniser, stream, reader, source, last, bychar, uricall,
                   utilcall, pool,
                   percent, request, network>>

\* The while loop of iter_lines yields the first line of data.
LinesYield ==
    /\ step = "iterating"
    /\ lines.chunks
    /\ has_eol(lines.data)
    /\ \E s \in {split_line(lines.data,
                            eol(find(lines.data, CarriageReturn),
                                find(lines.data, LineFeed)),
                            lines.keep_ends)} :
           lines' = [lines EXCEPT !.data = s.data,
                                  !.yielded = Append(@, s.line)]
    /\ UNCHANGED <<tokeniser, stream, reader, source, last, bychar, uricall,
                   utilcall, pool,
                   percent, response, request, network>>

\* After the loop: what is left of data is yielded, if anything, and the
\* generator ends.
LinesRest ==
    /\ step = "iterating"
    /\ ~lines.chunks
    /\ lines' = IF lines.data # << >>
                THEN [lines EXCEPT !.data = << >>,
                                   !.yielded = Append(@, lines.data)]
                ELSE lines
    /\ step' = "iterated"
    /\ UNCHANGED <<tokeniser, stream, reader, source, last, bychar, uricall,
                   utilcall, pool,
                   raw, safe, encoded, decoded, response, request, network>>

NextResponse == ResponseInit \/ LinesChunk \/ LinesYield \/ LinesRest

SpecResponse == InitResponse /\ [][NextResponse]_vars

\* -------------------------------------------------------------- Request

default_max_redirects == 5
MOVED_PERMANENTLY == 301
PERMANENT_REDIRECT == 308

\* The attributes a URI object has: the properties and methods of class
\* URI.
URI_attributes ==
    { "string", "scheme", "authority", "user_info", "host", "port",
      "host_port", "path", "query", "fragment", "hierarchical_part",
      "absolute_path_reference", "resolve" }

\* Request._submit: the Host header is uri.netloc and the request line is
\* made of uri.reference; the server the URI names then answers with a
\* status and a Location header.
Request_submit(uri, answers) ==
    IF ~({"netloc", "reference"} \subseteq URI_attributes)
    THEN Raised("AttributeError")
    ELSE IF uri \in DOMAIN answers THEN answers[uri]
    ELSE Raised("SocketError")

\* Response, Redirection, ClientError and ServerError are a Response of
\* the URI asked last; the two errors are raised.
Answered(class, uri, rs) == [t |-> class, uri |-> uri, status |-> rs.status]

\* URI.resolve(uri, rs.getheader("Location")) for a response with or
\* without the header.
Location(uri, rs) ==
    IF rs.location.t = "none" THEN Raised("AttributeError")
    ELSE resolve(uri, URI(rs.location.v), TRUE)

\* Location(uri, answers[uri]) for every URI a server answers.
Resolved(answers) == [uri \in DOMAIN answers |-> Location(uri, answers[uri])]

\* The loop of Request.submit from the URI asked next: the object returned
\* or the exception raised, and the redirects registry of the module.
\* locations is Resolved(answers).
RECURSIVE submit(_, _, _, _, _)
submit_follow(uri, follow, answers, locations, registry, rs, location) ==
    IF location.t # "URI"
    THEN [result |-> location, redirects |-> registry]
    ELSE IF location = uri
    THEN [result |-> Raised("RedirectionError"), redirects |-> registry]
    ELSE submit(location, follow, answers, locations,
                IF rs.status \in {MOVED_PERMANENTLY, PERMANENT_REDIRECT}
                THEN setitem(registry, uri, location)
                ELSE registry)

submit_answered(uri, follow, answers, locations, registry, rs) ==
    IF rs.t # "rs" THEN [result |-> rs, redirects |-> registry]
    ELSE IF rs.status \div 100 = 3
    THEN IF follow # 0
         THEN submit_follow(uri, follow - 1, answers, locations, registry,
                            rs, locations[uri])
         ELSE [result |-> Answered("Redirection", uri, rs),
               redirects |-> registry]
    ELSE IF rs.status \div 100 = 4
    THEN [result |-> Answered("ClientError", uri, rs),
          redirects |-> registry]
    ELSE IF rs.status \div 100 = 5
    THEN [result |-> Answered("ServerError", uri, rs),
          redirects |-> registry]
    ELSE [result |-> Answered("Response", uri, rs), redirects |-> registry]

submit(uri, follow, answers, locations, registry) ==
    submit_answered(uri, follow, answers, locations, registry,
                    Request_submit(uri, answers))

\* ------------------------------------------------- a sender of Requests

\* The resources of one server.
Targets ==
    { T(<<"h", "t", "t", "p", ":", "/", "/", "h", "/", "a">>),
      T(<<"h", "t", "t", "p", ":", "/", "/", "h", "/", "b">>) }

\* Location headers: the two resources, a relative reference to the
\* second, and an empty reference.
Locations ==
    { T(<<"/", "a">>), T(<<"/", "b">>), T(<<"b">>), << >> }

Statuses == {200, 302, MOVED_PERMANENTLY, 404, 500}

\* What a server answers for a resource: a status, and a Location header
\* when the status is a redirection.
Answers ==
    { [t |-> "rs", status |-> s, location |-> None] :
          s \in { s \in Statuses : s \div 100 # 3 } }
        \cup { [t |-> "rs", status |-> s, location |-> StrV(l)] :
                   s \in { s \in Statuses : s \div 100 = 3 },
                   l \in Locations }

\* The values of the follow argument of submit: none, one, and the default.
Follows == {0, 1, default_max_redirects}

InitRequest ==
    /\ InitObjects /\ source = << >>
    /\ InitPercent /\ safe = {}
    /\ InitParts
    /\ raw \in Targets

\* Request("GET", raw) while the servers answer as network says; the
\* registry of redirects is empty when the module is loaded.
RequestInit ==
    /\ step = "start"
    /\ \E uris \in {[u \in Targets |-> URI(u)]} :
           /\ request' = [t |-> "Request", method |-> "GET",
                          uri |-> uris[raw], redirects |-> << >>]
           /\ network' \in [{ uris[u] : u \in Targets } -> Answers]
    /\ step' = "requested"
    /\ UNCHANGED <<tokeniser, stream, reader, source, last, bychar, uricall,
                   utilcall, pool,
                   raw, safe, encoded, decoded, response, lines>>

\* part = request.submit(follow=n)
RequestSubmit ==
    /\ step = "requested"
    /\ \E n \in Follows :
           /\ args' = [follow |-> n]
           /\ \E locations \in {Resolved(network)} :
                  \E s \in {submit(request.uri, n, network, locations,
                                   request.redirects)} :
                      /\ part' = s.result
                      /\ request' = [request EXCEPT !.redirects = s.redirects]
    /\ step' = "submitted"
    /\ UNCHANGED <<tokeniser, stream, reader, source, last, bychar,
                   utilcall, pool,
                   raw, safe, encoded, decoded, response, lines, network>>

NextRequest == RequestInit \/ RequestSubmit

SpecRequest == InitRequest /\ [][NextRequest]_vars

\* ------------------------------------------ merged, on objects in memory

\* A reference to the object at address a of the heap.  A heap is a
\* sequence of lists and dicts whose items are scalars or references.
Ref(a) == [t |-> "ref", v |-> a]

\* isinstance(x, list) and isinstance(x, dict)
IsList(h, x) == x.t = "ref" /\ h[x.v].t = "list"
IsDict(h, x) == x.t = "ref" /\ h[x.v].t = "dict"

\* The value that x denotes in the heap h.
RECURSIVE Deref(_, _)
Deref(h, x) ==
    IF x.t # "ref" THEN x
    ELSE IF h[x.v].t = "list"
    THEN ListV([i \in 1..Len(h[x.v].v) |-> Deref(h, h[x.v].v[i])])
    ELSE DictV([k \in DOMAIN h[x.v].v |-> Deref(h, h[x.v].v[k])])

\* What merged returns: the heap after the call and the object returned
\* (a scalar, a reference, or IndexError when obj[k] raised it).
Merged(h, out) == [heap |-> h, out |-> out]

\* list(obj) or [], padded with None while len(obj) <= k.
padded_list(h, old, k) ==
    LET base == IF IsList(h, old) THEN h[old.v].v ELSE << >>
    IN  base \o Nones(Max(0, IntOf(k) + 1 - Len(base)))

\* A merged that begins every dict afresh: {} after setdefault(k, None).
defaulted_dict_fresh(h, old, k) ==
    [x \in {k} |-> None]

\* dict(obj) or {}, after setdefault(k, None).
defaulted_dict(h, old, k) ==
    LET base == IF IsDict(h, old) THEN h[old.v].v ELSE << >>
    IN  [x \in DOMAIN base \cup {k} |->
             IF x \in DOMAIN base THEN base[x] ELSE None]

\* The place of obj[k] in a list: a negative k counts from the end.
item_index(items, k) ==
    IF IntOf(k) >= 0 THEN IntOf(k) + 1 ELSE Len(items) + IntOf(k) + 1

\* obj[k] = <the object returned by the inner call r> on the object at a.
stored(r, a, cell) ==
    IF r.out.t = "raise" THEN r
    ELSE Merged([r.heap EXCEPT ![a] = cell], Ref(a))

\* merged that changes the list or dict it is given in place instead of
\* copying it.
RECURSIVE merged_heap_inplace(_, _, _, _)
merged_heap_inplace(h, old, key, value) ==
    IF key = << >> THEN Merged(h, value)
    ELSE IF IsInt(key[1])
    THEN LET items == padded_list(h, old, key[1])
             a == IF IsList(h, old) THEN old.v ELSE Len(h) + 1
             h1 == IF IsList(h, old) THEN [h EXCEPT ![a] = ListV(items)]
                   ELSE Append(h, ListV(items))
             i == item_index(items, key[1])
             r == merged_heap_inplace(h1, items[i], Tail(key), value)
         IN  IF i < 1 THEN Merged(h1, IndexError)
             ELSE stored(r, a, ListV([items EXCEPT ![i] = r.out]))
    ELSE LET items == defaulted_dict(h, old, key[1])
             a == IF IsDict(h, old) THEN old.v ELSE Len(h) + 1
             h1 == IF IsDict(h, old) THEN [h EXCEPT ![a] = DictV(items)]
                   ELSE Append(h, DictV(items))
             r == merged_heap_inplace(h1, items[key[1]], Tail(key), value)
         IN  stored(r, a, DictV([items EXCEPT ![key[1]] = r.out]))

\* merged(obj, key, value) on objects in memory: the list or dict made by
\* list(obj), dict(obj), [] or {} is a new object at the next free address,
\* and it is the only object that append, setdefault and obj[k] = ... change.
RECURSIVE merged_heap(_, _, _, _)
merged_heap(h, old, key, value) ==
    IF key = << >> THEN Merged(h, value)
    ELSE IF IsInt(key[1])
    THEN LET items == padded_list(h, old, key[1])
             a == Len(h) + 1
             h1 == Append(h, ListV(items))
             i == item_index(items, key[1])
             r == merged_heap(h1, items[i], Tail(key), value)
         IN  IF i < 1 THEN Merged(h1, IndexError)
             ELSE stored(r, a, ListV([items EXCEPT ![i] = r.out]))
    ELSE LET items == defaulted_dict(h, old, key[1])
             a == Len(h) + 1
             h1 == Append(h, DictV(items))
             r == merged_heap(h1, items[key[1]], Tail(key), value)
         IN  stored(r, a, DictV([items EXCEPT ![key[1]] = r.out]))

\* ------------------------------------------------- a caller of merged

MaxEvents == 3

\* Paths as JSONStream yields them, with an index beyond the end of a list
\* and a negative index.
MergePaths ==
    LET a == StrV(T(<<"a">>))
        b == StrV(T(<<"b">>))
    IN  { << >>, <<IntV(0)>>, <<IntV(2)>>, <<a>>, <<b>>, <<a, IntV(1)>>,
          <<a, b>>, <<IntV(0), a>>, <<IntV(-1)>> }

MergeValues == { IntV(1), IntV(2) }

MergeEvents == { Event(p, v) : p \in MergePaths, v \in MergeValues }

InitMerge ==
    /\ InitObjects /\ source = << >>
    /\ InitPercent /\ raw = << >> /\ safe = {}
    /\ part = NoPart /\ args = << >>
    /\ NoHttp /\ NoGrouping /\ NoPool
    /\ iterable \in UNION { [1..n -> MergeEvents] : n \in 0..MaxEvents }
    /\ NoMerge

\* obj = merged(obj, key, value) for the next event; the caller keeps the
\* accumulator it held before, and the value it had, in kept.
MergeNext ==
    /\ iterable # << >>
    /\ accumulator.t # "raise"
    /\ \E r \in {merged_heap(heap, accumulator, iterable[1].path,
                            iterable[1].value)} :
           /\ heap' = r.heap
           /\ accumulator' = r.out
    /\ kept' = Append(kept, [object |-> accumulator,
                             value |-> Deref(heap, accumulator)])
    /\ events' = Append(events, iterable[1])
    /\ iterable' = Tail(iterable)
    /\ UNCHANGED <<tokeniser, path, expectation, pc, opens, closes, reader,
                   source, last, bychar, percent, uricall, httpcall,
                   grouping, pool>>

NextMerge == MergeNext

SpecMerge == InitMerge /\ [][NextMerge]_vars

\* ----------------------------------------------------------- grouped

\* _group_key(item): key[0:level], or None for a key shorter than level.
group_key(item, lvl) ==
    IF Len(item.path) >= lvl
    THEN [none |-> FALSE, prefix |-> SubSeq(item.path, 1, lvl)]
    ELSE [none |-> TRUE, prefix |-> << >>]

\* itertools.groupby(iterable, _group_key) as grouped creates it: no target
\* key, no current key or value (each << >> or one element), no current
\* grouper, no grouper made yet.  checked: the groupby of this Python ends
\* a grouper that is no longer the current one and keeps the current key
\* when it delivers the current value (newer versions); an older one lets
\* every grouper go on and clears the current key with the current value.
groupby_new(checked) ==
    [t |-> "groupby", checked |-> checked, tgtkey |-> << >>,
     currkey |-> << >>, currvalue |-> << >>, currgrouper |-> 0, made |-> 0]

\* The state of a call on the groupby object: the object, the iterator it
\* reads, the events it has thrown away, and what the call returned.
Grouping(g, it, drop, out) ==
    [g |-> g, it |-> it, drop |-> drop, out |-> out]

StopIteration == [t |-> "StopIteration"]

\* groupby's step: the next item of the iterator becomes the current value,
\* its key the current key; a current value not yet delivered is lost.
groupby_step(g, it, drop, lvl) ==
    IF it = << >> THEN Grouping(g, it, drop, StopIteration)
    ELSE Grouping([g EXCEPT !.currvalue = <<it[1]>>,
                            !.currkey = <<group_key(it[1], lvl)>>],
                  Tail(it), drop \o g.currvalue, [t |-> "ok"])

\* next(groupby): steps until the current key differs from the target key,
\* makes it the target key and returns it with a new grouper.
RECURSIVE groupby_skip(_, _, _, _)
groupby_skip(g, it, drop, lvl) ==
    IF g.currkey # << >> /\ (g.tgtkey = << >> \/ g.tgtkey # g.currkey)
    THEN Grouping([g EXCEPT !.tgtkey = g.currkey,
                            !.made = g.made + 1,
                            !.currgrouper = g.made + 1],
                  it, drop,
                  [t |-> "group", key |-> g.currkey[1], id |-> g.made + 1])
    ELSE LET s == groupby_step(g, it, drop, lvl)
         IN  IF s.out.t = "StopIteration" THEN s
             ELSE groupby_skip(s.g, s.it, s.drop, lvl)

groupby_next(g, it, drop, lvl) ==
    groupby_skip([g EXCEPT !.currgrouper = 0], it, drop, lvl)

\* next(grouped(iterable, level)): the next group of groupby whose key is
\* not None.
RECURSIVE grouped_next(_, _, _, _)
grouped_next(g, it, drop, lvl) ==
    LET r == groupby_next(g, it, drop, lvl)
    IN  IF r.out.t = "group" /\ r.out.key.none
        THEN grouped_next(r.g, r.it, r.drop, lvl)
        ELSE r

\* A grouper that hands out the current value and keeps it as well.
grouper_next_kept(g, it, drop, lvl, id, tgtkey) ==
    IF g.checked /\ g.currgrouper # id
    THEN Grouping(g, it, drop, StopIteration)
    ELSE LET s == IF g.currvalue = << >> THEN groupby_step(g, it, drop, lvl)
                  ELSE Grouping(g, it, drop, [t |-> "ok"])
         IN  IF s.out.t = "StopIteration" THEN s
             ELSE IF s.g.currkey # <<tgtkey>>
             THEN Grouping(s.g, s.it, s.drop, StopIteration)
             ELSE Grouping(s.g, s.it, s.drop,
                           [t |-> "item", item |-> s.g.currvalue[1]])

\* next() of the grouper id made for tgtkey: steps if the current value has
\* been delivered, and delivers the current value if its key is the
\* grouper's.
grouper_next(g, it, drop, lvl, id, tgtkey) ==
    IF g.checked /\ g.currgrouper # id
    THEN Grouping(g, it, drop, StopIteration)
    ELSE LET s == IF g.currvalue = << >> THEN groupby_step(g, it, drop, lvl)
                  ELSE Grouping(g, it, drop, [t |-> "ok"])
         IN  IF s.out.t = "StopIteration" THEN s
             ELSE IF s.g.currkey # <<tgtkey>>
             THEN Grouping(s.g, s.it, s.drop, StopIteration)
             ELSE Grouping([s.g EXCEPT !.currvalue = << >>,
                                       !.currkey = IF s.g.checked THEN @
                                                   ELSE << >>],
                           s.it, s.drop,
                           [t |-> "item", item |-> s.g.currvalue[1]])

\* A _group that yields the event with its whole path.
group_item_whole(item, lvl) ==
    Event(item.path, item.value)

\* _group(iterable, level): key[level:], value
group_item(item, lvl) ==
    Event(SubSeq(item.path, lvl + 1, Len(item.path)), item.value)

\* ------------------------------------------------ a consumer of grouped

\* Paths of the events of a document like {"a": [..], "b": [..]}, and the
\* empty path.
GroupPaths ==
    LET a == StrV(T(<<"a">>))
        b == StrV(T(<<"b">>))
    IN  { << >>, <<a>>, <<b>>, <<a, IntV(0)>>, <<a, IntV(1)>>,
          <<b, IntV(0)>> }

\* Event sequences: the i-th event has the value i.
GroupInputs ==
    { [i \in 1..Len(p) |-> Event(p[i], IntV(i))] :
          p \in UNION { [1..n -> GroupPaths] : n \in 0..MaxEvents } }

Levels == {0, 1, 2}

InitGrouped ==
    /\ InitObjects /\ source = << >>
    /\ InitPercent /\ raw = << >> /\ safe = {}
    /\ part = NoPart /\ args = << >>
    /\ NoHttp /\ NoMerge /\ NoPool
    /\ iterable \in GroupInputs
    /\ level \in Levels
    /\ groupby = NoPart /\ groups = << >>
    /\ dropped = << >> /\ orderly = TRUE

\* The events pulled from the iterator by a call that left it as rest.
Pulled(rest) == SubSeq(iterable, 1, Len(iterable) - Len(rest))

\* grouped(iterable, level): a generator, nothing is read yet.
GroupedCall ==
    /\ step = "start"
    /\ step' = "grouping"
    /\ \E checked \in BOOLEAN : groupby' = groupby_new(checked)
    /\ UNCHANGED <<tokeniser, stream, reader, source, last, bychar, raw,
                   safe, encoded, decoded, uricall, httpcall, iterable, heap,
                   accumulator, kept, level, groups, dropped, orderly, pool>>

\* The consumer asks grouped for its next group.
GroupedNext ==
    /\ step = "grouping"
    /\ \E r \in {grouped_next(groupby, iterable, dropped, level)} :
           /\ groupby' = r.g
           /\ iterable' = r.it
           /\ dropped' = r.drop
           /\ events' = events \o Pulled(r.it)
           /\ IF r.out.t = "group"
              THEN /\ groups' = Append(groups,
                                       [key |-> r.out.key.prefix,
                                        id |-> r.out.id,
                                        items |-> << >>,
                                        ended |-> FALSE])
                   /\ step' = step
              ELSE /\ groups' = groups
                   /\ step' = "grouped"
    /\ orderly' = (orderly /\ (groups = << >> \/ groups[Len(groups)].ended))
    /\ UNCHANGED <<tokeniser, path, expectation, pc, opens, closes, reader,
                   source, last, bychar, raw, safe, encoded, decoded,
                   uricall, httpcall, heap, accumulator, kept, level, pool>>

\* The consumer asks one of the groups it holds for its next item.
GroupNext ==
    /\ step \in {"grouping", "grouped"}
    /\ \E i \in 1..Len(groups) :
       \E r \in {grouper_next(groupby, iterable, dropped, level,
                              groups[i].id,
                              [none |-> FALSE, prefix |-> groups[i].key])} :
           /\ ~groups[i].ended
           /\ groupby' = r.g
           /\ iterable' = r.it
           /\ dropped' = r.drop
           /\ events' = events \o Pulled(r.it)
           /\ groups' =
                  IF r.out.t = "item"
                  THEN [groups EXCEPT ![i].items =
                            Append(@, group_item(r.out.item, level))]
                  ELSE [groups EXCEPT ![i].ended = TRUE]
           /\ orderly' = (orderly /\ i = Len(groups))
    /\ UNCHANGED <<tokeniser, path, expectation, pc, opens, closes, reader,
                   source, last, bychar, percent, uricall, httpcall, heap,
                   accumulator, kept, level, pool>>

NextGrouped == GroupedCall \/ GroupedNext \/ GroupNext

SpecGrouped == InitGrouped /\ [][NextGrouped]_vars

\* ------------------------------------------------- a ConnectionPuddle

\* list.remove(x) in try ... except ValueError: pass: the list without its
\* first x, or the list as it is if x is not in it.
list_remove(list, x) ==
    IF \A i \in 1..Len(list) : list[i] # x THEN list
    ELSE LET i == CHOOSE k \in 1..Len(list) :
                      list[k] = x /\ \A j \in 1..(k - 1) : list[j] # x
         IN  SubSeq(list, 1, i - 1) \o SubSeq(list, i + 1, Len(list))

\* The lists of a puddle and the connection a call returned (0: none).
Puddle(act, pas, made, connection) ==
    [active |-> act, passive |-> pas, connections |-> made,
     connection |-> connection]

\* ConnectionPuddle.acquire: the last passive connection, or a new one.
acquire(act, pas, made) ==
    IF pas # << >>
    THEN Puddle(Append(act, pas[Len(pas)]), SubSeq(pas, 1, Len(pas) - 1),
                made, pas[Len(pas)])
    ELSE Puddle(Append(act, made + 1), pas, made + 1, made + 1)

\* ConnectionPuddle.release: the connection leaves the active list if it is
\* there, and joins the passive list if that holds fewer than two
\* (otherwise it is closed, which changes no list).
release(act, pas, made, connection) ==
    LET left == list_remove(act, connection)
    IN  IF Len(pas) < 2
        THEN Puddle(left, Append(pas, connection), made, 0)
        ELSE Puddle(left, pas, made, 0)

\* ------------------------------------------- the callers of a puddle

\* The number of connections the callers make, and of entries of the
\* active list.
MaxConnections == 3
MaxActive == 4

InitPuddle ==
    /\ InitObjects /\ source = << >>
    /\ InitPercent /\ raw = << >> /\ safe = {}
    /\ part = NoPart /\ args = << >>
    /\ NoHttp /\ iterable = << >> /\ NoMerge /\ NoGrouping /\ NoPool

\* ConnectionPool.acquire(scheme, netloc) for the one puddle.
Acquire ==
    /\ Len(active) < MaxActive
    /\ passive = << >> => connections < MaxConnections
    /\ \E p \in {acquire(active, passive, connections)} :
           /\ active' = p.active
           /\ passive' = p.passive
           /\ connections' = p.connections
    /\ UNCHANGED <<tokeniser, stream, reader, source, last, bychar, percent,
                   uricall, httpcall, utilcall>>

\* ConnectionPool.release(connection), as Response.close calls it, with a
\* connection the puddle has made: the callers keep their references, so
\* it may be one released before.
Release ==
    /\ \E c \in 1..connections :
       \E p \in {release(active, passive, connections, c)} :
           /\ active' = p.active
           /\ passive' = p.passive
           /\ connections' = p.connections
    /\ UNCHANGED <<tokeniser, stream, reader, source, last, bychar, percent,
                   uricall, httpcall, utilcall>>

NextPuddle == Acquire \/ Release

SpecPuddle == InitPuddle /\ [][NextPuddle]_vars

\* --------------------------------------------- one chunk, as a function

\* The tokens read() returns for a buffer until it raises.
RECURSIVE drain_tokens(_, _, _, _)
drain_tokens(text, pos, w, acc) ==
    LET r == read(text, pos, w)
    IN  IF r.sig = "ok"
        THEN drain_tokens(text, r.pos, w,
                          Append(acc, [src |-> r.src, value |-> r.value]))
        ELSE [tokens |-> acc, sig |-> r.sig, arg |-> r.arg, pos |-> r.pos]

\* write(text); end(); read() until it raises.
WholeTokens(text) == drain_tokens(text, 0, FALSE, << >>)

\* The inner loop of __iter__ run to its exit.
RECURSIVE drain_events(_, _, _, _, _, _)
drain_events(text, pos, w, p, e, acc) ==
    LET r == read(text, pos, w)
        h == Dispatch(p, e, r.src, r.value)
    IN  CASE r.sig # "ok" ->
                 [events |-> acc, path |-> p, expectation |-> e,
                  pos |-> r.pos, last |-> Call("read", r.sig, r.arg)]
          [] h.raised ->
                 [events |-> acc, path |-> p, expectation |-> e,
                  pos |-> r.pos,
                  last |-> Handling("UnexpectedCharacter", r.src)]
          [] OTHER ->
                 drain_events(text, r.pos, w, h.path, h.expectation,
                              acc \o h.out)

\* JSONStream(iter([text])) run to its end: the text in one chunk.
WholeEvents(text) ==
    LET first == drain_events(text, 0, TRUE, << >>,
                              VALUE + OPENING_BRACKET + OPENING_BRACE, << >>)
    IN  IF first.last.sig = "AwaitingData"
        THEN drain_events(text, first.pos, FALSE, first.path,
                          first.expectation, first.events)
        ELSE first

\* ------------------------------------------------------------ the claims

\* The whole input of a run: what has been written and what is left.
Doc == data \o source

\* C1: when JSONStream's iteration has ended, normally or by an exception,
\* the events it yielded and the way it ended are those of the same text
\* given as one chunk, whatever the chunks were; so the assembled value is
\* the same for every chunking.
C1_ChunkingYieldsSameEvents ==
    pc \in {"done", "failed"} =>
        LET w == WholeEvents(Doc)
        IN  events = w.events /\ last = w.last

\* ["foo", "bar"] given one character at a time has been decoded.
C1_Witness ==
    /\ pc = "done"
    /\ bychar
    /\ data = T(<<"[", "\"", "f", "o", "o", "\"", ",", " ", "\"", "b", "a",
                  "r", "\"", "]">>)
    /\ Len(events) = 2

\* C2: when read() has raised anything but AwaitingData, the tokens it has
\* returned and the exception are those of the buffered text written in
\* one write() and ended, however the text was written and read.
C2_TokensAgreeWithOneWrite ==
    (last.op = "read" /\ last.sig \notin {"ok", "AwaitingData"}) =>
        LET w == WholeTokens(data)
        IN  tokens = w.tokens /\ last.sig = w.sig /\ last.arg = w.arg

\* '42, 76' written one character at a time, read() retried up to the
\* last character, then end() and three tokens.
C2_Witness ==
    /\ bychar
    /\ source = << >>
    /\ data = T(<<"4", "2", ",", " ", "7", "6">>)
    /\ awaiting = [pos |-> 4, len |-> 6]
    /\ last = Call("read", "EndOfStream", 0)
    /\ Len(tokens) = 3

\* C3: a read() that raises AwaitingData leaves the read position at the
\* start of the token it attempted (after the whitespace it skipped); and
\* the read() that then returns a token returns all of it: its source text
\* runs from that start over everything that was buffered at the time.
C3_AwaitingDataRewinds ==
    [][ /\ (last'.op = "read" /\ last'.sig = "AwaitingData")
            => read_pos' = skip_whitespace(data, read_pos)
        /\ (/\ awaiting.pos < awaiting.len
            /\ read_pos = awaiting.pos
            /\ last'.op = "read" /\ last'.sig = "ok"
            /\ tokens' # tokens)
            => /\ tokens'[Len(tokens')].src
                      = SubSeq(data, awaiting.pos + 1, read_pos')
               /\ read_pos' >= awaiting.len ]_vars

\* 'fal' was buffered when read() raised AwaitingData, and the next token
\* returned is ('false', False).
C3_Witness ==
    /\ awaiting = [pos |-> 0, len |-> 3]
    /\ last = Call("read", "ok", 0)
    /\ tokens = << [src |-> LitFalse, value |-> BoolV(FALSE)] >>

\* C4: read() raises EndOfStream only when the stream has been ended, and
\* AwaitingData only while it has not.
C4_SignalMatchesWritable ==
    last.op = "read" =>
        /\ last.sig = "EndOfStream" => ~writable
        /\ last.sig = "AwaitingData" => writable

\* 'fal' and no more: AwaitingData before end(), EndOfStream after it.
C4_Witness ==
    /\ data = T(<<"f", "a", "l">>)
    /\ awaiting = [pos |-> 0, len |-> 3]
    /\ last = Call("read", "EndOfStream", 0)
    /\ tokens = << >>

\* C5: a write() after end() raises IOError and changes neither the
\* buffer nor the write position nor the read position.
C5_WriteAfterEndFails ==
    [][ (~writable /\ last'.op = "write")
            => /\ last'.sig = "IOError"
               /\ UNCHANGED <<data, write_pos, read_pos>> ]_vars

\* A write() has been refused with text still to write.
C5_Witness ==
    /\ last = Call("write", "IOError", 0)
    /\ source # << >>
    /\ data # << >>

IsContainer(x) == x.t \in {"list", "dict"}

ContainerEvents == SelectSeq(events, LAMBDA e : IsContainer(e.value))

\* C6: every '[' or '{' accepted has produced exactly one event, whose
\* value is the empty container.
C6_OpeningsYieldEvents ==
    Len(ContainerEvents) = opens

\* The token constant a token is checked against.
KindOf(src) ==
    CASE src = <<Comma>> -> COMMA
      [] src = <<Colon>> -> COLON
      [] src = <<LBracket>> -> OPENING_BRACKET
      [] src = <<RBracket>> -> CLOSING_BRACKET
      [] src = <<LBrace>> -> OPENING_BRACE
      [] src = <<RBrace>> -> CLOSING_BRACE
      [] OTHER -> VALUE

\* C7: a token that is not in the expectation set is not accepted:
\* UnexpectedCharacter(src) is raised, no event is yielded and the path is
\* left alone.
C7_UnexpectedTokenRejected ==
    [][ pc = "drain" =>
          LET r == read(data, read_pos, writable)
          IN  (r.sig = "ok" /\ ~Expecting(expectation, KindOf(r.src)))
                  => /\ pc' = "failed"
                     /\ last' = Handling("UnexpectedCharacter", r.src)
                     /\ UNCHANGED <<events, path, expectation>> ]_vars

\* '[1 2]': the value 2 where a comma is expected.
C7_Witness ==
    /\ pc = "failed"
    /\ last = Handling("UnexpectedCharacter", T(<<"2">>))
    /\ events = << Event(<<IntV(0)>>, IntV(1)) >>

\* C8: when a document has been read to its end, the events assemble to
\* the document, empty arrays and objects included.
C8_AssembledIsDocument ==
    \A d \in JsonValues :
        (pc = "done" /\ Doc = dumps(d)) => assembled(events) = d

\* C9: a number with an exponent is read to the end without an exception
\* and yields one event, the float it denotes, at the empty path.
C9_ExponentIsOneFloat ==
    \A x \in ExponentTexts :
        (pc \in {"done", "failed"} /\ Doc = x.text)
            => /\ pc = "done"
               /\ events = << Event(<< >>, x.value) >>

\* C10: decoding the encoding of a string gives the string back, for every
\* string and every safe set without '%'; and '%' is encoded as %25.
C10_DecodeInvertsEncode ==
    /\ step = "decoded" => decoded = Decoded(raw)
    /\ (step = "encoded" /\ raw = <<Percent>>)
           => encoded = T(<<"%", "2", "5">>)

\* The characters 0-9, A-F and a-f.
HexDigits ==
    (Zero .. Zero + 9) \cup (UpperA .. UpperF) \cup (LetterA .. LetterA + 5)

\* A '%' of the text that is not followed by two hex digits.
BadEscapes(text) ==
    { i \in 1..Len(text) :
        /\ text[i] = Percent
        /\ ~ (/\ i + 2 <= Len(text)
              /\ text[i + 1] \in HexDigits /\ text[i + 2] \in HexDigits) }

\* C11: percent_decode of a text with an invalid or incomplete escape
\* raises a decode error; it never returns a value.
C11_InvalidEscapeRaises ==
    (step = "received" /\ BadEscapes(raw) # {}) => decoded = DecodeError

\* RFC 3986 section 5.2.4, steps 2A to 2E, on the input and output
\* buffers; the result is the output buffer when the input is empty.
RECURSIVE Rfc_remove_dot_segments(_, _)
Rfc_remove_dot_segments(input, output) ==
    LET up == T(<<".", ".">>)
        here == T(<<".">>)
        sl == T(<<"/">>)
        rest(n) == SubSeq(input, n + 1, Len(input))
        \* the output without its last segment and that segment's "/"
        cut == LET at == { i \in 1..Len(output) : output[i] = Slash }
               IN  IF at = {} THEN << >>
                   ELSE SubSeq(output, 1,
                               (CHOOSE i \in at : \A j \in at : j <= i) - 1)
        \* the length of the first segment, its initial "/" included
        seg == LET at == { i \in 2..Len(input) : input[i] = Slash }
               IN  IF at = {} THEN Len(input)
                   ELSE (CHOOSE i \in at : \A j \in at : i <= j) - 1
    IN  CASE input = << >> -> output
          [] startswith(input, up \o sl) ->
                 Rfc_remove_dot_segments(rest(3), output)
          [] startswith(input, here \o sl) ->
                 Rfc_remove_dot_segments(rest(2), output)
          [] startswith(input, sl \o here \o sl) ->
                 Rfc_remove_dot_segments(sl \o rest(3), output)
          [] input = sl \o here ->
                 Rfc_remove_dot_segments(sl, output)
          [] startswith(input, sl \o up \o sl) ->
                 Rfc_remove_dot_segments(sl \o rest(4), cut)
          [] input = sl \o up ->
                 Rfc_remove_dot_segments(sl, cut)
          [] input \in {here, up} ->
                 Rfc_remove_dot_segments(<< >>, output)
          [] OTHER ->
                 Rfc_remove_dot_segments(rest(seg),
                                         output \o SubSeq(input, 1, seg))

\* C12: removing the dot segments of a path a second time changes nothing.
C12_RemoveDotSegmentsIdempotent ==
    step = "renormalised" => part = args[1]

\* C13: Path(s).remove_dot_segments() is the path RFC 3986 section 5.2.4
\* gives for s, for every path string s.
C13_RemoveDotSegmentsIsRfc ==
    (step = "normalised" /\ part.t = "Path")
        => part = Path(Rfc_remove_dot_segments(raw, << >>))

\* C16: an Authority made from the string form of an Authority has the
\* same user_info, host and port.
C16_AuthorityRoundTrips ==
    step = "reparsed" => part = args[1]

\* The positions of ':' after the last '@' of an authority string.
PortColons(text) ==
    { i \in Find(text, Colon) : \A j \in Find(text, At) : j < i }

\* C17: a ':' inside the user-info is no port separator: with an '@' and
\* no ':' after the last '@', the port is absent, the user_info is the
\* text before the last '@' and the host the text after it; with digits
\* after a ':' that follows the last '@', the port is their number.
C17_PortColonIsOutsideUserInfo ==
    (step = "parsed" /\ Find(raw, At) # {} /\ BadEscapes(raw) = {})
        => /\ PortColons(raw) = {}
               => /\ part.t = "Authority"
                  /\ part.port = None
                  /\ part.user_info = StrV(percent_decode(
                         SubSeq(raw, 1, Last(Find(raw, At)) - 1)).text)
                  /\ part.host = StrV(percent_decode(
                         From(raw, Last(Find(raw, At)))).text)
           /\ (/\ PortColons(raw) # {}
               /\ From(raw, Last(PortColons(raw))) # << >>
               /\ \A i \in (Last(PortColons(raw)) + 1)..Len(raw) :
                      raw[i] \in DIGITS)
               => /\ part.t = "Authority"
                  /\ part.port =
                         IntV(DecNumber(From(raw, Last(PortColons(raw))), 0))

\* The (key, value) pairs a non-empty query string spells out, in input
\* order: its pieces between '&', each cut at its first '='.
RECURSIVE PairsOfBits(_)
PairsOfBits(text) ==
    LET amp == { i \in 1..Len(text) : text[i] = Amp }
        bit == IF amp = {} THEN text
               ELSE SubSeq(text, 1, (CHOOSE i \in amp : \A j \in amp : i <= j) - 1)
        eq == { i \in 1..Len(bit) : bit[i] = Equals }
        at == CHOOSE i \in eq : \A j \in eq : i <= j
        pair == IF eq = {} THEN << StrV(bit), None >>
                ELSE << StrV(SubSeq(bit, 1, at - 1)),
                        StrV(SubSeq(bit, at + 1, Len(bit))) >>
    IN  IF amp = {} THEN << pair >>
        ELSE << pair >> \o PairsOfBits(SubSeq(text, Len(bit) + 2, Len(text)))

\* An empty query string spells out no pair.
PairsOf(text) == IF text = << >> THEN << >> ELSE PairsOfBits(text)

\* C18: a Query holds every pair of its string in input order, repeated
\* keys included, and decoding the encoding of a pair sequence gives the
\* pairs back in order.
C18_QueryKeepsEveryPair ==
    /\ (step = "parsed" /\ raw # << >>)
           => part = [t |-> "Query", query |-> PairsOf(raw)]
    /\ step = "recoded" => part = [t |-> "Query", query |-> args]

\* The fragment a reference carries: the text after its first '#',
\* percent-decoded, or None.
FragmentOf(reference) ==
    LET at == { i \in 1..Len(reference) : reference[i] = Hash }
    IN  IF at = {} THEN None
        ELSE StrV(percent_decode(SubSeq(reference,
                     (CHOOSE i \in at : \A j \in at : i <= j) + 1,
                     Len(reference))).text)

\* C14: for the base of RFC 3986 section 5.4 every reference listed there
\* resolves to the listed target, and the target's fragment is always the
\* reference's fragment.
C14_ResolveIsRfcTransform ==
    step = "resolved"
        => /\ part.t = "URI"
           /\ part.fragment = FragmentOf(args.reference)
           /\ \A r \in Rfc54 :
                  (raw = RfcBase /\ args.reference = r[1])
                      => part = URI(r[2])

\* '../../g' has been resolved against the RFC's base with a fragment.
C14_Witness ==
    /\ step = "resolved"
    /\ raw = RfcBase \o T(<<"#", "f">>)
    /\ args.reference = T(<<".", ".", "/", ".", ".", "/", "g">>)
    /\ part = URI(T(<<"h", "t", "t", "p", ":", "/", "/", "a", "/", "g">>))

\* C15: a reference with the base's own scheme is absolute with
\* strict=True ('http:g' resolves to 'http:g') and relative with
\* strict=False ('http:g' resolves to 'http://a/b/c/g').
C15_StrictKeepsSameScheme ==
    (step = "resolved" /\ args.reference = SameSchemeRef
        /\ raw \in {RfcBase, RfcBase \o T(<<"#", "f">>)})
        => IF args.strict
           THEN part = URI(SameSchemeRef)
           ELSE part = URI(T(<<"h", "t", "t", "p", ":", "/", "/", "a", "/", "b", "/", "c", "/", "g">>))

\* 'http:g' has been resolved with strict=False.
C15_Witness ==
    /\ step = "resolved"
    /\ raw = RfcBase
    /\ args.reference = SameSchemeRef
    /\ ~ args.strict
    /\ part.authority # None

\* The pairs with their keys and values percent-decoded.
DecodedPairs(pairs) ==
    [i \in 1..Len(pairs) |->
        << StrV(percent_decode(pairs[i][1].v).text),
           IF pairs[i][2] = None THEN None
           ELSE StrV(percent_decode(pairs[i][2].v).text) >>]

\* Variables RFC 6570 section 2.3 counts as undefined: None, not bound,
\* and a list without members.
UndefinedNames ==
    { T(<<"u", "n", "d", "e", "f">>), T(<<"a", "b", "s", "e", "n", "t">>),
      T(<<"n", "o", "l", "i", "s", "t">>) }

\* C19: a template expands to the result RFC 6570 section 3.2 lists for
\* it, under every operator; the name=value pairs of a '?' expansion are
\* the pairs of the URI's query; and a variable the RFC counts as undefined
\* adds neither a value nor the operator's prefix.
C19_ExpandIsRfc6570 ==
    step = "expanded"
        => /\ \A r \in Rfc6570 :
                  args.template = r[1]
                      => /\ expanded_text(r[1], Variables) = StrV(r[2])
                         /\ part = URI(r[2])
                         /\ r[2][1] = Question
                                => part.query.query
                                       = DecodedPairs(PairsOf(Tail(r[2])))
           /\ \A o \in Operators, n \in UndefinedNames :
                  args.template = Expression(o, <<n>>)
                      => part = URI(T(<<"X">>))

\* The varspecs of variables that are None or not bound.
DroppedSpecs ==
    { n \o m : n \in { T(<<"u", "n", "d", "e", "f">>),
                       T(<<"a", "b", "s", "e", "n", "t">>) },
               m \in Modifiers }

\* C20: a variable that is None or not bound adds nothing to an expansion,
\* under every operator and modifier: an expression of such variables only
\* expands to the empty string, and next to another variable the result is
\* that of the expression without it.
C20_UndefinedIsDropped ==
    step = "expanded"
        => \A o \in Operators, u \in DroppedSpecs :
               /\ args.template = Expression(o, <<u>>)
                      => part = URI(T(<<"X">>))
               /\ \A v \in VarSpecs \ DroppedSpecs :
                      args.template \in { Expression(o, <<v, u>>),
                                          Expression(o, <<u, v>>) }
                          => part = URITemplate_expand(
                                        Expression(o, <<v>>), Variables)

\* The varspecs of an empty list and of an empty dict, plain and exploded.
EmptySpecs ==
    { n \o m : n \in { T(<<"n", "o", "l", "i", "s", "t">>),
                       T(<<"e", "m", "p", "t", "y", "_", "k", "e", "y", "s">>) },
               m \in { << >>, <<Star>> } }

\* C21: a variable bound to an empty list or an empty dict is dropped like
\* an undefined one, exploded or not: alone it gives the result of the
\* expression of an undefined variable, under every operator.
C21_EmptyIsDropped ==
    step = "expanded"
        => \A o \in Operators, e \in EmptySpecs :
               args.template = Expression(o, <<e>>)
                   => part = URITemplate_expand(
                                 Expression(o, <<T(<<"u", "n", "d", "e", "f">>)>>),
                                 Variables)

\* The lines of a text: each ends at '\r\n', '\r' or '\n', and what
\* follows the last line end is a line if it is not empty.
RECURSIVE LinesOf(_, _, _)
LinesOf(text, line, keep_ends) ==
    IF text = << >>
    THEN IF line = << >> THEN << >> ELSE <<line>>
    ELSE IF /\ text[1] = CarriageReturn
            /\ Len(text) >= 2
            /\ text[2] = LineFeed
    THEN <<IF keep_ends THEN line \o UpTo(text, 2) ELSE line>>
             \o LinesOf(From(text, 2), << >>, keep_ends)
    ELSE IF text[1] \in {CarriageReturn, LineFeed}
    THEN <<IF keep_ends THEN Append(line, text[1]) ELSE line>>
             \o LinesOf(Tail(text), << >>, keep_ends)
    ELSE LinesOf(Tail(text), Append(line, text[1]), keep_ends)

\* C22: when iter_lines has ended, the lines it yielded are the lines of
\* the whole decoded body, in order, whatever the chunk size.
C22_LinesIgnoreChunking ==
    step = "iterated" /\ response.t = "Response"
        => \A whole \in {Response_decode(response, raw)} :
               whole.t = "str"
                   => lines.yielded = LinesOf(whole.v, << >>, lines.keep_ends)

\* What the server answers first, and where its Location leads.
FirstAnswer == network[request.uri]
FirstLocation == Location(request.uri, FirstAnswer)

\* C23: when submit follows redirections and the first answer is a
\* redirection to the URI just requested, submit raises RedirectionError;
\* when it is a redirection to another URI whose server answers 200, submit
\* returns a Response whose uri is that URI.
C23_CircularRedirectionRaises ==
    step = "submitted" /\ args.follow # 0 /\ FirstAnswer.status \div 100 = 3
        => /\ FirstLocation = request.uri
                  => part = Raised("RedirectionError")
           /\ (FirstLocation # request.uri
                   /\ network[FirstLocation].status = 200)
                  => part.t = "Response" /\ part.uri = FirstLocation

\* C24: in every state of JSONStream the path has one segment for each
\* container that has been opened and not closed.
C24_PathLengthIsDepth ==
    Len(path) = opens - closes

\* '[[],[' has been accepted: three arrays opened, one closed, and the
\* path is two segments long.
C24_Witness ==
    /\ opens = 3
    /\ closes = 1
    /\ Len(path) = 2

\* C25: the kind of a path segment, array index or key slot, is fixed when
\* its container is opened: no step changes a segment that stays on the
\* path from an integer into something else or back.
C25_SegmentKindIsFixed ==
    [][ \A i \in 1..Len(path) :
            i <= Len(path') => IsInt(path'[i]) = IsInt(path[i]) ]_vars

\* C26: an array's index starts at 0 when '[' is accepted, every event of a
\* value directly in an array carries the index the array has at that
\* moment, and a step advances an index by one exactly when it completes a
\* direct child of that array (a scalar value yielded in it, or a nested
\* container closed in it) and leaves it alone otherwise.
C26_IndexAdvancesOncePerChild ==
    [][ /\ \A i \in 1..Len(path) :
               (i <= Len(path') /\ IsInt(path[i]) /\ IsInt(path'[i]))
                   => IntOf(path'[i]) = IntOf(path[i]) +
                          (IF \/ /\ i = Len(path)
                                 /\ Len(path') = Len(path)
                                 /\ events' # events
                              \/ /\ i = Len(path) - 1
                                 /\ Len(path') = i
                                 /\ closes' = closes + 1
                           THEN 1 ELSE 0)
        /\ (Len(path') = Len(path) + 1 /\ IsInt(path'[Len(path')]))
               => path'[Len(path')] = IntV(0)
        /\ (events' # events /\ path # << >> /\ IsInt(path[Len(path)]))
               => /\ Len(events') = Len(events) + 1
                  /\ events'[Len(events')].path = path ]_vars

\* '[[1], 2]' has been read to its end: the nested array is child 0, its
\* element carries (0, 0), and the scalar after it carries index 1.
C26_Witness ==
    /\ pc = "done"
    /\ events = << Event(<<IntV(0), IntV(0)>>, IntV(1)),
                   Event(<<IntV(1)>>, IntV(2)) >>

\* C27: once a top-level value is complete (a scalar has been yielded at
\* the empty path or a container has been closed, and the path is empty),
\* the next token read that starts a value is accepted: a scalar is yielded
\* with the empty path, '[' starts an array at index 0 and '{' an object
\* with an empty key slot.
C27_NextTopLevelValue ==
    [][ \A r \in {read(data, read_pos, writable)} :
            ( /\ pc = "drain"
              /\ path = << >>
              /\ (events # << >> \/ closes > 0)
              /\ r.sig = "ok"
              /\ r.src \notin {<<Comma>>, <<Colon>>, <<RBracket>>, <<RBrace>>} )
                => /\ pc' = "drain"
                   /\ last' = Handling("ok", r.src)
                   /\ CASE r.src = <<LBracket>> ->
                               path' = <<IntV(0)>> /\ events' = events
                        [] r.src = <<LBrace>> ->
                               path' = <<None>> /\ events' = events
                        [] OTHER ->
                               /\ path' = << >>
                               /\ events' =
                                      Append(events, Event(<< >>, r.value)) ]_vars

\* '[]1' has been read: the array was closed at the top level and the
\* scalar after it was yielded with the empty path.
C27_Witness ==
    /\ opens = 1
    /\ closes = 1
    /\ path = << >>
    /\ events = << Event(<< >>, IntV(1)) >>

\* The number grammar of the tokeniser: an optional '-', an integer part
\* that is a lone 0 or digits not beginning with 0, an optional '.' with
\* digits.  HasDot: the token has a fractional part.
HasDot(src) == \E i \in 1..Len(src) : src[i] = Dot

\* The integer part of the token is the lone digit 0.
LoneZero(src) ==
    /\ ~HasDot(src)
    /\ src \in {<<Zero>>, <<Minus, Zero>>}

\* The character c after the number token src would make a longer number.
CanContinue(src, c) ==
    IF HasDot(src) THEN c \in DIGITS
    ELSE c = Dot \/ (c \in DIGITS /\ ~LoneZero(src))

\* The text is a number cut off directly after its sign, its digits or its
\* decimal point.
UnfinishedNumber(text) ==
    /\ text # << >>
    /\ \E body \in {IF text[1] = Minus THEN Tail(text) ELSE text} :
           \/ body = << >>
           \/ /\ body[1] \in DIGITS
              /\ \A i \in 1..Len(body) : body[i] \in DIGITS \cup {Dot}
              /\ Cardinality({i \in 1..Len(body) : body[i] = Dot}) <= 1
              /\ body[1] = Zero => (Len(body) = 1 \/ body[2] = Dot)

\* C28: when read() returns a number token, the stream has been ended or
\* the character buffered after the token cannot continue the number; and
\* when the buffered text from the read position on (whitespace skipped) is
\* a number cut off after its sign, digits or decimal point and the stream
\* is writable, read() signals AwaitingData, returns no token and leaves
\* the read position at the start of the number.
C28_NumberIsNeverCutShort ==
    [][ last'.op = "read"
            => /\ ( /\ last'.sig = "ok"
                    /\ tokens'[Len(tokens')].src[1] \in DIGITS \cup {Minus} )
                      => \/ ~writable
                         \/ /\ read_pos' < Len(data)
                            /\ ~CanContinue(tokens'[Len(tokens')].src,
                                            data[read_pos' + 1])
               /\ \A start \in {skip_whitespace(data, read_pos)} :
                      ( /\ writable
                        /\ UnfinishedNumber(SubSeq(data, start + 1,
                                                   Len(data))) )
                          => /\ last'.sig = "AwaitingData"
                             /\ tokens' = tokens
                             /\ read_pos' = start ]_vars

\* '42, 76' was written one character at a time: read() signalled
\* AwaitingData when only '4' was buffered, and returned the token 42 once
\* the comma was buffered, the stream still writable.
C28_Witness ==
    /\ writable
    /\ awaiting = [pos |-> 0, len |-> 2]
    /\ Len(tokens) = 1
    /\ tokens[1].src = <<Ord("4"), Ord("2")>>
    /\ read_pos = 2
    /\ Len(data) = 3

\* The text from position pos on (pos characters of text are behind) is
\* the inside of a string in which, before any closing quote, a backslash is
\* followed by a character that is not one of the simple escapes and not
\* 'u' with four hexadecimal digits.
RECURSIVE IllegalEscapeAhead(_, _)
IllegalEscapeAhead(text, pos) ==
    IF pos >= Len(text) \/ text[pos + 1] = Quote THEN FALSE
    ELSE IF text[pos + 1] # Backslash THEN IllegalEscapeAhead(text, pos + 1)
    ELSE IF pos + 1 >= Len(text) THEN FALSE
    ELSE IF text[pos + 2] \in DOMAIN ESCAPE_SEQUENCES
    THEN IllegalEscapeAhead(text, pos + 2)
    ELSE IF text[pos + 2] # LetterU THEN TRUE
    ELSE \/ \E i \in 1..4 :
               /\ pos + 2 + i <= Len(text)
               /\ HexValue(text[pos + 2 + i]) < 0
               /\ \A j \in 1..(i - 1) : HexValue(text[pos + 2 + j]) >= 0
         \/ /\ pos + 6 <= Len(text)
            /\ \A j \in 1..4 : HexValue(text[pos + 2 + j]) >= 0
            /\ IllegalEscapeAhead(text, pos + 6)

\* C29: when read() is called on a string that holds an illegal escape (a
\* backslash followed by a character other than a simple escape or 'u' and
\* four hexadecimal digits), it raises UnexpectedCharacter.
C29_IllegalEscapeIsUnexpected ==
    [][ \A start \in {skip_whitespace(data, read_pos)} :
            ( /\ last'.op = "read"
              /\ pc # "failed"
              /\ start < Len(data)
              /\ data[start + 1] = Quote
              /\ IllegalEscapeAhead(data, start + 1) )
                => last'.sig = "UnexpectedCharacter" ]_vars

\* C30: a step that takes a chunk from the source comes first of all or
\* directly after a read() that signalled AwaitingData; at that moment
\* read() on the data written so far still signals AwaitingData, and the
\* events yielded are all the events that the data written so far gives
\* when it is drained in one piece.  The step takes one chunk, writes it
\* and goes on to drain it.
C30_ChunkPulledOnlyWhenStarved ==
    [][ source' # source
            => /\ \/ last.op = "init"
                  \/ last.op = "read" /\ last.sig = "AwaitingData"
               /\ read(data, read_pos, writable).sig = "AwaitingData"
               /\ \A d \in {drain_events(data, 0, TRUE, << >>,
                                VALUE + OPENING_BRACKET + OPENING_BRACE,
                                << >>)} :
                      /\ d.last.sig = "AwaitingData"
                      /\ d.events = events
               /\ data' = data \o SubSeq(source, 1,
                                          Len(source) - Len(source'))
               /\ pc' = "drain" ]_vars

\* '1 1' came as '1 ' and '1': the event of the first value was yielded
\* and AwaitingData signalled before the second chunk was written.
C30_Witness ==
    /\ pc = "drain"
    /\ last = Call("write", "ok", 0)
    /\ source = << >>
    /\ data = <<Ord("1"), Ord(" "), Ord("1")>>
    /\ events = << Event(<< >>, IntV(1)) >>

\* C31: iteration over a JSONStream whose source is finite terminates: the
\* iterator reaches its end, normally (EndOfStream after end()) or with an
\* exception.
C31_IterationTerminates ==
    <>(pc \in {"done", "failed"})

\* '[1]' has been read to the end: the source was exhausted, end() was
\* called and the last read() raised EndOfStream.
C31_Witness ==
    /\ pc = "done"
    /\ ~writable
    /\ source = << >>
    /\ last = Call("read", "EndOfStream", 0)
    /\ data = <<LBracket, Ord("1"), RBracket>>

\* C32: after each call of merged in a fold that starts from None and
\* passes on the accumulator, the accumulator has the value that assembled
\* gives for the events merged so far (or both have raised); an event with
\* the empty path makes its value the accumulator; and an event whose path
\* is one index at or beyond the end of the list gives a list that reaches
\* that index, keeps its items, holds the value at the index and None in
\* between.
C32_FoldIsAssembled ==
    [][ events' # events
            => \E e \in {events'[Len(events')]} :
               \E old \in {Deref(heap, accumulator)} :
               \E n \in {IF old.t = "list" THEN Len(old.v) ELSE 0} :
                  /\ (accumulator'.t = "raise")
                         <=> (assembled(events').t = "raise")
                  /\ accumulator'.t # "raise"
                         => Deref(heap', accumulator') = assembled(events')
                  /\ e.path = << >> => accumulator' = e.value
                  /\ ( /\ Len(e.path) = 1
                       /\ IsInt(e.path[1])
                       /\ IntOf(e.path[1]) >= n )
                         => \E new \in {Deref(heap', accumulator')} :
                                /\ new.t = "list"
                                /\ Len(new.v) = IntOf(e.path[1]) + 1
                                /\ new.v[Len(new.v)] = e.value
                                /\ \A j \in 1..n : new.v[j] = old.v[j]
                                /\ \A j \in (n + 1)..(Len(new.v) - 1) :
                                       new.v[j].t = "none" ]_vars

\* (0,) 1 and then (2,) 2 have been merged: the list was padded to
\* [1, None, 2].
C32_Witness ==
    /\ iterable = << >>
    /\ Len(events) = 2
    /\ IsList(heap, accumulator)
    /\ Deref(heap, accumulator) = ListV(<<IntV(1), None, IntV(2)>>)

\* C38: a call of merged changes no object that existed before the call
\* (the objects it makes are new), so every accumulator the caller held
\* before still has the value it had when it was returned.
C38_MergedCopies ==
    [][ /\ Len(heap') >= Len(heap)
        /\ \A a \in 1..Len(heap) : heap'[a] = heap[a]
        /\ \A i \in 1..Len(kept') :
               Deref(heap', kept'[i].object) = kept'[i].value ]_vars

\* (0,) 1, (0,) 2 and (2,) 1 have been merged: the caller still holds the
\* list [1] returned first and the list [2] returned second, and the
\* accumulator is [2, None, 1].
C38_Witness ==
    /\ Len(kept) = 3
    /\ kept[2].object.t = "ref"
    /\ kept[2].value.t = "list"
    /\ kept[2].value = ListV(<<IntV(1)>>)
    /\ kept[3].value.t = "list"
    /\ kept[3].value = ListV(<<IntV(2)>>)
    /\ accumulator.t = "ref"
    /\ Len(heap[accumulator.v].v) = 3

\* The events of evs at i and j have paths of at least lvl segments and the
\* same first lvl segments.
SamePrefix(evs, lvl, i, j) ==
    /\ Len(evs[i].path) >= lvl
    /\ Len(evs[j].path) >= lvl
    /\ SubSeq(evs[i].path, 1, lvl) = SubSeq(evs[j].path, 1, lvl)

\* The positions of evs where a maximal run begins.
RunStarts(evs, lvl) ==
    { i \in 1..Len(evs) : /\ Len(evs[i].path) >= lvl
                          /\ (i = 1 \/ ~SamePrefix(evs, lvl, i - 1, i)) }

\* The last position of the maximal run that begins at i.
RunEnd(evs, lvl, i) ==
    CHOOSE j \in i..Len(evs) :
        /\ \A k \in i..j : SamePrefix(evs, lvl, i, k)
        /\ (j = Len(evs) \/ ~SamePrefix(evs, lvl, i, j + 1))

\* The maximal run that begins at i: its prefix, and its events without it.
RunAt(evs, lvl, i) ==
    [key |-> SubSeq(evs[i].path, 1, lvl),
     items |-> [k \in 1..(RunEnd(evs, lvl, i) - i + 1) |->
                   [path |-> SubSeq(evs[i + k - 1].path, lvl + 1,
                                    Len(evs[i + k - 1].path)),
                    value |-> evs[i + k - 1].value]]]

\* The maximal runs of evs in input order.
RECURSIVE RunsFrom(_, _, _)
RunsFrom(evs, lvl, from) ==
    LET later == { i \in RunStarts(evs, lvl) : i >= from }
    IN  IF later = {} THEN << >>
        ELSE LET i == CHOOSE m \in later : \A o \in later : m <= o
             IN  <<RunAt(evs, lvl, i)>> \o RunsFrom(evs, lvl, i + 1)

Runs(evs, lvl) == RunsFrom(evs, lvl, 1)

\* The events of a sequence of groups, each with its key put back.
RECURSIVE Reprefixed(_)
Reprefixed(gs) ==
    IF gs = << >> THEN << >>
    ELSE [k \in 1..Len(gs[1].items) |->
             [path |-> gs[1].key \o gs[1].items[k].path,
              value |-> gs[1].items[k].value]]
         \o Reprefixed(Tail(gs))

\* What the consumer has got: the key and the items of each group.
Got == [i \in 1..Len(groups) |-> [key |-> groups[i].key,
                                  items |-> groups[i].items]]

\* Is s the first Len(s) elements of r?
IsPrefix(s, r) == Len(s) <= Len(r) /\ s = SubSeq(r, 1, Len(s))

\* C33: while each group is consumed to its end before the next is asked
\* for, the groups the consumer has got are the maximal runs of consecutive
\* input events with the same first level path segments, in input order and
\* with those segments stripped (the group being consumed is the beginning
\* of its run, and the whole run once it has ended); events with a shorter
\* path are in no group; and once grouped has ended, the items with their
\* keys put back are the input events of path length >= level.
C33_GroupsAreMaximalRuns ==
    orderly =>
        \E all \in {events \o iterable} :
        \E runs \in {Runs(events \o iterable, level)} :
            /\ Len(groups) <= Len(runs)
            /\ \A i \in 1..Len(groups) :
                   /\ groups[i].key = runs[i].key
                   /\ IsPrefix(groups[i].items, runs[i].items)
                   /\ (groups[i].ended \/ i < Len(groups))
                          => groups[i].items = runs[i].items
            /\ ( /\ step = "grouped"
                 /\ (groups = << >> \/ groups[Len(groups)].ended) )
                   => /\ Got = runs
                      /\ Reprefixed(Got) =
                             SelectSeq(all, LAMBDA e : Len(e.path) >= level)

\* At level 1 the events (a, 0) 1, () 2, (a, 1) 3 have been consumed in
\* order: two groups with the key a, one event each, and the event with the
\* empty path in neither.
C33_Witness ==
    /\ step = "grouped"
    /\ orderly
    /\ level = 1
    /\ Len(events) = 3
    /\ events[2].path = << >>
    /\ Len(groups) = 2
    /\ groups[1].key = groups[2].key
    /\ groups[1].ended /\ groups[2].ended
    /\ groups[1].items = <<Event(<<IntV(0)>>, IntV(1))>>
    /\ groups[2].items = <<Event(<<IntV(1)>>, IntV(3))>>

\* The events handed to the consumer so far.
Delivered == Concat([i \in 1..Len(groups) |-> groups[i].items])

\* C34: every event pulled from the input has been delivered, or thrown
\* away, or is the one event groupby holds; a call that returns a group has
\* pulled nothing after the first event of that group, which it holds; and
\* asking a group for its next item pulls at most one event.
C34_GroupedIsStreaming ==
    [][ /\ groupby'.t = "groupby"
          => /\ Len(groupby'.currvalue) <= 1
             /\ Len(events') = Len(Delivered') + Len(dropped')
                                + Len(groupby'.currvalue)
        /\ Len(groups') > Len(groups)
          => /\ groupby'.currvalue = <<events'[Len(events')]>>
             /\ SubSeq(events'[Len(events')].path, 1, level)
                    = groups'[Len(groups')].key
        /\ (Len(groups') = Len(groups) /\ step' = step)
          => Len(events') <= Len(events) + 1 ]_vars

\* The first group has been consumed to its end, which pulled the first
\* event of the next run: groupby holds it, the rest is still in the input.
C34_Witness ==
    /\ step = "grouping"
    /\ Len(groups) = 1
    /\ groups[1].ended
    /\ Len(groups[1].items) = 1
    /\ Len(events) = 2
    /\ groupby.currvalue = <<events[2]>>
    /\ iterable # << >>

\* C35: when the iteration over JSONStream has ended without raising, every
\* container that was opened has been closed: the path is empty and no key
\* of an object is waiting for its colon or its value.
C35_NormalEndIsComplete ==
    pc = "done" => /\ path = << >>
                   /\ ~Expecting(expectation, COLON)
                   /\ opens = closes

\* The tokens that open a container.
Openings == { <<LBracket>>, <<LBrace>> }

\* C36: inside an object a token '[' or '{' is accepted only in value
\* position, where the key and its colon have been read; in key position
\* (the object has no key at hand) it is rejected with UnexpectedCharacter.
C36_OpeningOnlyInValuePosition ==
    [][ ( /\ pc = "drain"
          /\ in_object(path)
          /\ last'.op = "handle"
          /\ last'.src \in Openings )
            => IF has_key(path) /\ Expecting(expectation, OPENING_BRACKET)
               THEN last'.sig = "ok"
               ELSE last'.sig = "UnexpectedCharacter" /\ pc' = "failed"
      ]_vars

\* The tokens that separate or close.
Closings == { <<Comma>>, <<Colon>>, <<RBracket>>, <<RBrace>> }

\* C37: at top level (the path is empty) the tokens ',', ':', ']' and '}'
\* raise UnexpectedCharacter, so that a closing token is handled, and the
\* path popped, only while the path is not empty.
C37_TopLevelRejectsClosings ==
    [][ ( /\ pc = "drain"
          /\ last'.op = "handle"
          /\ last'.src \in Closings )
            => /\ path = << >>
                 => /\ last'.sig = "UnexpectedCharacter"
                    /\ pc' = "failed"
                    /\ path' = path
               /\ ( last'.sig = "ok"
                    /\ last'.src \in { <<RBracket>>, <<RBrace>> } )
                      => /\ path # << >>
                         /\ Len(path') = Len(path) - 1
      ]_vars

\* The document 1] has yielded 1, and the ']' at top level has been
\* rejected.
C37_Witness ==
    /\ pc = "failed"
    /\ path = << >>
    /\ Len(events) = 1
    /\ last = Handling("UnexpectedCharacter", <<RBracket>>)
    /\ data = <<Ord("1"), RBracket>>

\* Does the list hold some connection twice?
Twice(list) ==
    \E i, j \in 1..Len(list) : i # j /\ list[i] = list[j]

\* C39: after any acquire and release calls, a connection released twice
\* included, the passive list holds at most two connections, no connection
\* is in both lists, none is twice in the passive list, and none is held
\* twice (twice in the active list).
C39_PuddleKeepsConnectionsApart ==
    /\ Len(passive) <= 2
    /\ \A i \in 1..Len(active) : \A j \in 1..Len(passive) :
           active[i] # passive[j]
    /\ ~Twice(passive)
    /\ ~Twice(active)
====
